---- MODULE Spec2Model ----
(***************************************************************************)
(* Model of the staged-execution core of odoo-mcp:                         *)
(*   - ActionStateStore (src/src/mcp.ts): plan -> dry_run -> confirm        *)
(*     lifecycles, the signature index and the event ledger;               *)
(*   - the write tools of src/src/tools.ts (odoo.create and its siblings),  *)
(*     each invocation being one asynchronous task that is suspended at    *)
(*     its awaits (checkDryRunAccess, the downstream Odoo call).           *)
(*                                                                         *)
(* Conventions.  A JavaScript optional value (undefined or a value) is a   *)
(* sequence of length at most one: <<>> is undefined, <<v>> is v.  A        *)
(* JavaScript object is the sequence of its <<key, value>> entries in      *)
(* insertion order.  crypto.randomUUID() is a counter that never repeats.  *)
(***************************************************************************)
EXTENDS Integers, Sequences, FiniteSets, TLC

VARIABLES
  lifecycles,      \* ActionStateStore.lifecycles: actionId -> ActionLifecycle
  signatureIndex,  \* ActionStateStore.signatureIndex: signature -> actionId
  events,          \* InMemoryEventStore.events (action_* events)
  nextId,          \* the next identifier crypto.randomUUID() hands out
  now,             \* Date.now()
  tasks,           \* suspended tool invocations, in the order they started
  downstream,      \* mutating calls issued to odooConnector, in issue order
  lastCall,        \* the step just taken: store method, arguments, outcome
  sessions,        \* Host.sessions: the ids of the sessions in the set
  conn,            \* session id -> the Session and its WebSocketConnection
  wire,            \* frames written to the sockets (socket.write), in order
  invocations,     \* tools/call invocations started and not yet finished
  uncaught,        \* an exception has left a socket 'data' listener
  stream,          \* the bytes a peer has written to its socket, in order
  pending,         \* the bytes of `stream` not yet delivered by 'data' events
  connection,      \* a WebSocketConnection and what it emitted, byte by byte
  plain,           \* the payload handed to encodeFrame
  encoded,         \* what encodeFrame returned for it
  decoded,         \* what decodeFrame returned for that
  uid,             \* OdooConnector.uid
  transport,       \* the calls made on the connector's OdooTransport
  connecting       \* connect() calls awaiting transport.connect()

storeVars == <<lifecycles, signatureIndex, events, nextId>>
toolVars == <<tasks, downstream>>
hostVars == <<sessions, conn, wire, invocations, uncaught>>
byteVars == <<stream, pending, connection>>
codecVars == <<plain, encoded, decoded>>
connectorVars == <<uid, transport, connecting>>
edgeVars == <<stream, pending, connection, plain, encoded, decoded,
              uid, transport, connecting>>
vars == <<lifecycles, signatureIndex, events, nextId, now, tasks,
          downstream, lastCall, sessions, conn, wire, invocations, uncaught,
          stream, pending, connection, plain, encoded, decoded,
          uid, transport, connecting>>

----
\* Bounds of the model.
MaxEvents == 3      \* length of the ledger when the store is driven directly
MaxCalls == 4       \* tool invocations that may append to the ledger

DEFAULT_APPROVAL_TTL_MS == 5 * 60 * 1000

\* The instants the clock is observed at: the start, and the first
\* millisecond after an approval window opened at the start has ended.
ClockValues == {1, 2 + DEFAULT_APPROVAL_TTL_MS}

Sessions == {"session-1", "session-2"}
ToolNames == {"odoo.create", "odoo.write"}

\* Who calls which tool: two sessions on one tool, one session on two tools.
Callers ==
  { <<"session-1", "odoo.create">>, <<"session-2", "odoo.create">>,
    <<"session-1", "odoo.write">> }

\* src/config.ts
SAFE_MODELS == {"res.partner", "account.move"}
WRITABLE_MODELS == {"res.partner"}
AllowedFields == {"email", "name"}

\* The values objects a client may send: entries in insertion order.
ValuesInputs ==
  { << <<"name", "Alice">>, <<"email", "a@x">> >>,
    << <<"name", "Bob">>, <<"sneaky", "x">> >>,
    << <<"sneaky", "x">> >> }

----
\* Map helpers (JavaScript Map get/set/delete on a TLA+ function).
MapSet(m, k, v) == [x \in (DOMAIN m) \cup {k} |-> IF x = k THEN v ELSE m[x]]
MapDelete(m, k) == [x \in (DOMAIN m) \ {k} |-> m[x]]

\* Array.prototype.sort() on strings orders by code units; the keys in use
\* are ordered email < model < name < sneaky < values.
KeyRank(k) ==
  CASE k = "email" -> 1
    [] k = "model" -> 2
    [] k = "name" -> 3
    [] k = "sneaky" -> 4
    [] k = "values" -> 5

RECURSIVE SortEntries(_)
SortEntries(entries) ==
  IF entries = <<>> THEN <<>>
  ELSE LET m == CHOOSE i \in 1..Len(entries) :
                  \A j \in 1..Len(entries) :
                    KeyRank(entries[i][1]) <= KeyRank(entries[j][1])
       IN <<entries[m]>> \o
          SortEntries(SubSeq(entries, 1, m - 1) \o
                      SubSeq(entries, m + 1, Len(entries)))

\* stableStringify of a payload {model, values}: the entries of every object
\* in key order.  JSON.stringify of a string is injective, so a primitive is
\* represented by itself.
stableStringify(value) ==
  SortEntries(<< <<"model", value.model>>,
                 <<"values", SortEntries(value.values)>> >>)

\* computeSignature with the session left out of the signature.
computeSignatureNoSession(sessionId, tool, payload) ==
  <<"", tool, stableStringify(payload)>>

\* `${sessionId}:${tool}:${serialized}`.  Session ids are UUIDs and tool names
\* are the registered names, neither contains ':', so the concatenation is
\* the triple of its parts.
computeSignature(sessionId, tool, payload) ==
  <<sessionId, tool, stableStringify(payload)>>

Payload(model, values) == [model |-> model, values |-> values]

\* Payloads the store is called with when it is driven directly: two that
\* differ only in the order of their keys, and one with other content.
Payloads ==
  { Payload("res.partner", v) :
      v \in { << <<"name", "Alice">>, <<"email", "a@x">> >>,
              << <<"email", "a@x">>, <<"name", "Alice">> >>,
              << <<"name", "Bob">> >> } }

----
\* The record of a step, kept for the properties.
Call(op, actionId, sessionId, tool, payload, outcome, result) ==
  [op |-> op, actionId |-> actionId, sessionId |-> sessionId, tool |-> tool,
   payload |-> payload, outcome |-> outcome, result |-> result]

NoPayload == Payload("", <<>>)

\* A tool call that returned {error} before it changed anything.
Rejected(op) == Call(op, <<>>, "", "", NoPayload, "error", <<>>)

\* The store, the tools and the host after construction.
InitCore ==
  /\ lifecycles = <<>>
  /\ signatureIndex = <<>>
  /\ events = <<>>
  /\ nextId = 1
  /\ now = 1
  /\ tasks = <<>>
  /\ downstream = <<>>
  /\ lastCall = Call("init", <<>>, "", "", NoPayload, "ok", <<>>)
  /\ sessions = {}
  /\ conn = <<>>
  /\ wire = <<>>
  /\ invocations = <<>>
  /\ uncaught = FALSE

\* A WebSocketConnection after its constructor; nothing written to it yet.
InitBytes ==
  /\ stream = <<>>
  /\ pending = <<>>
  /\ connection = [buffer |-> <<>>, closed |-> FALSE, emitted |-> <<>>,
                   thrown |-> FALSE]

\* An OdooConnector after its constructor.
InitConnector ==
  /\ uid = <<>>
  /\ transport = <<>>
  /\ connecting = 0

Init ==
  /\ InitCore
  /\ InitBytes
  /\ InitConnector
  /\ plain = <<>>
  /\ encoded = <<>>
  /\ decoded = <<>>

----
\* recordPlan that leaves an existing signature-index entry in place.
recordPlanKeepIndex(sessionId, tool, payload, requestedBy) ==
  LET actionId == nextId
      signature == computeSignature(sessionId, tool, payload)
      plan == [actionId |-> actionId, mode |-> "plan",
               requestedBy |-> requestedBy]
      lifecycle == [actionId |-> actionId, sessionId |-> sessionId,
                    tool |-> tool, payload |-> payload,
                    signature |-> signature,
                    plan |-> <<plan>>, dryRun |-> <<>>, confirm |-> <<>>]
  IN /\ lifecycles' = MapSet(lifecycles, actionId, lifecycle)
     /\ signatureIndex' = IF signature \in DOMAIN signatureIndex
                            THEN signatureIndex
                            ELSE MapSet(signatureIndex, signature, actionId)
     /\ events' = Append(events,
                    [type |-> "action_plan_recorded", actionId |-> actionId,
                     sessionId |-> sessionId, tool |-> tool,
                     payload |-> payload])
     /\ nextId' = nextId + 1
     /\ lastCall' = Call("recordPlan", <<>>, sessionId, tool, payload, "ok",
                         <<actionId>>)

\* recordPlan that deletes the superseded lifecycle and leaves the index
\* entry of its signature as it was.
recordPlanStaleIndex(sessionId, tool, payload, requestedBy) ==
  LET actionId == nextId
      signature == computeSignature(sessionId, tool, payload)
      plan == [actionId |-> actionId, mode |-> "plan",
               requestedBy |-> requestedBy]
      lifecycle == [actionId |-> actionId, sessionId |-> sessionId,
                    tool |-> tool, payload |-> payload,
                    signature |-> signature,
                    plan |-> <<plan>>, dryRun |-> <<>>, confirm |-> <<>>]
      kept == IF signature \in DOMAIN signatureIndex
                THEN MapDelete(lifecycles, signatureIndex[signature])
                ELSE lifecycles
  IN /\ lifecycles' = MapSet(kept, actionId, lifecycle)
     /\ signatureIndex' = IF signature \in DOMAIN signatureIndex
                            THEN signatureIndex
                            ELSE MapSet(signatureIndex, signature, actionId)
     /\ events' = Append(events,
                    [type |-> "action_plan_recorded", actionId |-> actionId,
                     sessionId |-> sessionId, tool |-> tool,
                     payload |-> payload])
     /\ nextId' = nextId + 1
     /\ lastCall' = Call("recordPlan", <<>>, sessionId, tool, payload, "ok",
                         <<actionId>>)

\* ActionStateStore.recordPlan
recordPlan(sessionId, tool, payload, requestedBy) ==
  LET actionId == nextId
      signature == computeSignature(sessionId, tool, payload)
      plan == [actionId |-> actionId, mode |-> "plan",
               requestedBy |-> requestedBy]
      lifecycle == [actionId |-> actionId, sessionId |-> sessionId,
                    tool |-> tool, payload |-> payload,
                    signature |-> signature,
                    plan |-> <<plan>>, dryRun |-> <<>>, confirm |-> <<>>]
      kept == IF signature \in DOMAIN signatureIndex
                THEN MapDelete(lifecycles, signatureIndex[signature])
                ELSE lifecycles
  IN /\ lifecycles' = MapSet(kept, actionId, lifecycle)
     /\ signatureIndex' = MapSet(signatureIndex, signature, actionId)
     /\ events' = Append(events,
                    [type |-> "action_plan_recorded", actionId |-> actionId,
                     sessionId |-> sessionId, tool |-> tool,
                     payload |-> payload])
     /\ nextId' = nextId + 1
     /\ lastCall' = Call("recordPlan", <<>>, sessionId, tool, payload, "ok",
                         <<actionId>>)

\* The guards of ActionStateStore.recordDryRun: the error it throws, or "ok".
recordDryRunOutcome(sessionId, tool, payload) ==
  LET signature == computeSignature(sessionId, tool, payload)
  IN IF signature \notin DOMAIN signatureIndex
       THEN "A prior plan run is required before dry_run."
     ELSE IF \/ signatureIndex[signature] \notin DOMAIN lifecycles
             \/ lifecycles[signatureIndex[signature]].plan = <<>>
       THEN "Plan metadata missing for this action."
     ELSE IF lifecycles[signatureIndex[signature]].sessionId # sessionId
       THEN "Action session mismatch."
     ELSE "ok"

\* approvalTtlMs ?? DEFAULT_APPROVAL_TTL_MS
ApprovalTtl(approvalTtlMs) ==
  IF approvalTtlMs = <<>> THEN DEFAULT_APPROVAL_TTL_MS ELSE approvalTtlMs[1]

\* recordDryRun that appends its event before it looks the plan up.
recordDryRunEventFirst(sessionId, tool, payload, approvedBy, approvalTtlMs) ==
  LET signature == computeSignature(sessionId, tool, payload)
      outcome == recordDryRunOutcome(sessionId, tool, payload)
      actionId == IF outcome = "ok" THEN signatureIndex[signature] ELSE 0
  IN /\ events' = Append(events,
           [type |-> "action_dry_run_recorded", actionId |-> actionId,
            sessionId |-> sessionId, tool |-> tool, payload |-> payload])
     /\ lifecycles' =
          IF outcome # "ok" THEN lifecycles
          ELSE [lifecycles EXCEPT
                  ![actionId].dryRun =
                     << [actionId |-> actionId, mode |-> "dry_run",
                         payload |-> payload,
                         requestedBy |-> lifecycles[actionId].plan[1].requestedBy,
                         approvedBy |-> approvedBy, approvedAt |-> now,
                         expiresAt |-> now + ApprovalTtl(approvalTtlMs)] >>,
                  ![actionId].payload = payload]
     /\ UNCHANGED <<signatureIndex, nextId>>
     /\ lastCall' = Call("recordDryRun", <<>>, sessionId, tool, payload,
                         outcome, IF outcome = "ok" THEN <<actionId>> ELSE <<>>)

\* recordDryRun that keeps the dry_run stage a lifecycle already has.
recordDryRunKeepFirst(sessionId, tool, payload, approvedBy, approvalTtlMs) ==
  LET signature == computeSignature(sessionId, tool, payload)
      outcome == recordDryRunOutcome(sessionId, tool, payload)
  IN IF outcome # "ok"
       THEN /\ UNCHANGED storeVars
            /\ lastCall' = Call("recordDryRun", <<>>, sessionId, tool, payload,
                                outcome, <<>>)
       ELSE LET actionId == signatureIndex[signature]
                lifecycle == lifecycles[actionId]
                dryRun == [actionId |-> actionId, mode |-> "dry_run",
                           payload |-> payload,
                           requestedBy |-> lifecycle.plan[1].requestedBy,
                           approvedBy |-> approvedBy, approvedAt |-> now,
                           expiresAt |-> now + ApprovalTtl(approvalTtlMs)]
            IN /\ lifecycles' =
                    IF lifecycle.dryRun # <<>> THEN lifecycles
                    ELSE [lifecycles EXCEPT ![actionId].dryRun = <<dryRun>>,
                                            ![actionId].payload = payload]
               /\ events' = Append(events,
                    [type |-> "action_dry_run_recorded", actionId |-> actionId,
                     sessionId |-> sessionId, tool |-> tool,
                     payload |-> payload])
               /\ UNCHANGED <<signatureIndex, nextId>>
               /\ lastCall' = Call("recordDryRun", <<>>, sessionId, tool,
                                   payload, "ok", <<actionId>>)

\* ActionStateStore.recordDryRun
recordDryRun(sessionId, tool, payload, approvedBy, approvalTtlMs) ==
  LET signature == computeSignature(sessionId, tool, payload)
      outcome == recordDryRunOutcome(sessionId, tool, payload)
  IN IF outcome # "ok"
       THEN /\ UNCHANGED storeVars
            /\ lastCall' = Call("recordDryRun", <<>>, sessionId, tool, payload,
                                outcome, <<>>)
       ELSE LET actionId == signatureIndex[signature]
                lifecycle == lifecycles[actionId]
                dryRun == [actionId |-> actionId, mode |-> "dry_run",
                           payload |-> payload,
                           requestedBy |-> lifecycle.plan[1].requestedBy,
                           approvedBy |-> approvedBy, approvedAt |-> now,
                           expiresAt |-> now + ApprovalTtl(approvalTtlMs)]
            IN /\ lifecycles' =
                    [lifecycles EXCEPT ![actionId].dryRun = <<dryRun>>,
                                       ![actionId].payload = payload]
               /\ events' = Append(events,
                    [type |-> "action_dry_run_recorded", actionId |-> actionId,
                     sessionId |-> sessionId, tool |-> tool,
                     payload |-> payload])
               /\ UNCHANGED <<signatureIndex, nextId>>
               /\ lastCall' = Call("recordDryRun", <<>>, sessionId, tool,
                                   payload, "ok", <<actionId>>)

\* validateConfirm without the check of the payload's signature.
validateConfirmNoSignature(actionId, sessionId, tool, payload) ==
  IF actionId \notin DOMAIN lifecycles
    THEN "Unknown action. Please re-run plan and dry_run."
  ELSE LET lifecycle == lifecycles[actionId] IN
    IF lifecycle.tool # tool
      THEN "Action tool mismatch."
    ELSE IF lifecycle.sessionId # sessionId
      THEN "Action session mismatch."
    ELSE IF lifecycle.dryRun = <<>>
      THEN "A matching dry_run approval is required before confirmation."
    ELSE IF lifecycle.dryRun[1].approvedBy = ""
      THEN "Dry_run has not been approved."
    ELSE IF /\ lifecycle.dryRun[1].expiresAt # 0
            /\ lifecycle.dryRun[1].expiresAt < now
      THEN "Dry_run approval has expired. Please run a new dry_run."
    ELSE IF lifecycle.confirm # <<>>
      THEN "Action already confirmed."
    ELSE "ok"

\* validateConfirm without the expiry check.
validateConfirmNoExpiry(actionId, sessionId, tool, payload) ==
  IF actionId \notin DOMAIN lifecycles
    THEN "Unknown action. Please re-run plan and dry_run."
  ELSE LET lifecycle == lifecycles[actionId] IN
    IF lifecycle.tool # tool
      THEN "Action tool mismatch."
    ELSE IF lifecycle.sessionId # sessionId
      THEN "Action session mismatch."
    ELSE IF computeSignature(sessionId, tool, payload) # lifecycle.signature
      THEN "Confirmation payload differs from the approved dry_run."
    ELSE IF lifecycle.dryRun = <<>>
      THEN "A matching dry_run approval is required before confirmation."
    ELSE IF lifecycle.dryRun[1].approvedBy = ""
      THEN "Dry_run has not been approved."
    ELSE IF lifecycle.confirm # <<>>
      THEN "Action already confirmed."
    ELSE "ok"

\* validateConfirm without the check for an existing confirm stage.
validateConfirmNoConfirmCheck(actionId, sessionId, tool, payload) ==
  IF actionId \notin DOMAIN lifecycles
    THEN "Unknown action. Please re-run plan and dry_run."
  ELSE LET lifecycle == lifecycles[actionId] IN
    IF lifecycle.tool # tool
      THEN "Action tool mismatch."
    ELSE IF lifecycle.sessionId # sessionId
      THEN "Action session mismatch."
    ELSE IF computeSignature(sessionId, tool, payload) # lifecycle.signature
      THEN "Confirmation payload differs from the approved dry_run."
    ELSE IF lifecycle.dryRun = <<>>
      THEN "A matching dry_run approval is required before confirmation."
    ELSE IF lifecycle.dryRun[1].approvedBy = ""
      THEN "Dry_run has not been approved."
    ELSE IF /\ lifecycle.dryRun[1].expiresAt # 0
            /\ lifecycle.dryRun[1].expiresAt < now
      THEN "Dry_run approval has expired. Please run a new dry_run."
    ELSE "ok"

\* ActionStateStore.validateConfirm: the error it throws, or "ok" when it
\* returns the dry_run stage.  A number is truthy when it is not 0, a string
\* when it is not empty.
validateConfirm(actionId, sessionId, tool, payload) ==
  IF actionId \notin DOMAIN lifecycles
    THEN "Unknown action. Please re-run plan and dry_run."
  ELSE LET lifecycle == lifecycles[actionId] IN
    IF lifecycle.tool # tool
      THEN "Action tool mismatch."
    ELSE IF lifecycle.sessionId # sessionId
      THEN "Action session mismatch."
    ELSE IF computeSignature(sessionId, tool, payload) # lifecycle.signature
      THEN "Confirmation payload differs from the approved dry_run."
    ELSE IF lifecycle.dryRun = <<>>
      THEN "A matching dry_run approval is required before confirmation."
    ELSE IF lifecycle.dryRun[1].approvedBy = ""
      THEN "Dry_run has not been approved."
    ELSE IF /\ lifecycle.dryRun[1].expiresAt # 0
            /\ lifecycle.dryRun[1].expiresAt < now
      THEN "Dry_run approval has expired. Please run a new dry_run."
    ELSE IF lifecycle.confirm # <<>>
      THEN "Action already confirmed."
    ELSE "ok"

\* recordConfirm that leaves the signature-index entry in place.
recordConfirmKeepIndex(actionId, sessionId, tool, payload, confirmedBy) ==
  IF actionId \notin DOMAIN lifecycles
    THEN /\ UNCHANGED storeVars
         /\ lastCall' = Call("recordConfirm", <<actionId>>, sessionId, tool,
                             payload, "Unknown action.", <<>>)
    ELSE LET lifecycle == lifecycles[actionId]
             confirm == [actionId |-> actionId, mode |-> "confirm",
                         payload |-> payload,
                         confirmedBy |-> confirmedBy, confirmedAt |-> now,
                         expiresAt |-> IF lifecycle.dryRun = <<>> THEN <<>>
                                       ELSE <<lifecycle.dryRun[1].expiresAt>>]
         IN /\ lifecycles' = [lifecycles EXCEPT ![actionId].confirm = <<confirm>>]
            /\ events' = Append(events,
                 [type |-> "action_confirm_recorded", actionId |-> actionId,
                  sessionId |-> sessionId, tool |-> tool,
                  payload |-> payload])
            /\ UNCHANGED <<signatureIndex, nextId>>
            /\ lastCall' = Call("recordConfirm", <<actionId>>, sessionId, tool,
                                payload, "ok", <<actionId>>)

\* ActionStateStore.recordConfirm
recordConfirm(actionId, sessionId, tool, payload, confirmedBy) ==
  IF actionId \notin DOMAIN lifecycles
    THEN /\ UNCHANGED storeVars
         /\ lastCall' = Call("recordConfirm", <<actionId>>, sessionId, tool,
                             payload, "Unknown action.", <<>>)
    ELSE LET lifecycle == lifecycles[actionId]
             confirm == [actionId |-> actionId, mode |-> "confirm",
                         payload |-> payload,
                         confirmedBy |-> confirmedBy, confirmedAt |-> now,
                         expiresAt |-> IF lifecycle.dryRun = <<>> THEN <<>>
                                       ELSE <<lifecycle.dryRun[1].expiresAt>>]
         IN /\ lifecycles' = [lifecycles EXCEPT ![actionId].confirm = <<confirm>>]
            /\ signatureIndex' =
                 IF lifecycle.signature \in DOMAIN signatureIndex
                   THEN MapDelete(signatureIndex, lifecycle.signature)
                   ELSE signatureIndex
            /\ events' = Append(events,
                 [type |-> "action_confirm_recorded", actionId |-> actionId,
                  sessionId |-> sessionId, tool |-> tool,
                  payload |-> payload])
            /\ UNCHANGED nextId
            /\ lastCall' = Call("recordConfirm", <<actionId>>, sessionId, tool,
                                payload, "ok", <<actionId>>)

----
\* The clock: Date.now() moves forward between two steps.
Tick ==
  \E t \in ClockValues :
    /\ t > now
    /\ now' = t
    /\ lastCall' = Call("tick", <<>>, "", "", NoPayload, "ok", <<>>)
    /\ UNCHANGED <<storeVars, toolVars, hostVars, edgeVars>>

----
\* ---- The write tools (src/src/tools.ts) ----
\* odoo.create, odoo.write, odoo.unlink and odoo.call_kw share one shape:
\* validate the input, build the payload, then branch on the mode.  The model
\* carries the tool name as a parameter and the payload {model, values}.

EXECUTION_MODES == {"plan", "dry_run", "confirm"}

\* sanitizeValues: keep the entries of allowed fields, in their order.
RECURSIVE FilterAllowed(_)
FilterAllowed(values) ==
  IF values = <<>> THEN <<>>
  ELSE IF values[1][1] \in AllowedFields
    THEN <<values[1]>> \o FilterAllowed(Tail(values))
    ELSE FilterAllowed(Tail(values))

sanitizeValues(values) == FilterAllowed(values)

\* The checks at the head of execute: the message of the error thrown, or "ok".
inputError(model, values, mode) ==
  IF model \notin SAFE_MODELS THEN "Model is not in the whitelist."
  ELSE IF model \notin WRITABLE_MODELS
    THEN "Model is not allowed for write operations."
  ELSE IF mode \notin EXECUTION_MODES
    THEN "Execution mode must be one of: plan, dry_run, confirm"
  ELSE IF sanitizeValues(values) = <<>>
    THEN "No allowed fields provided for model."
  ELSE "ok"

\* resolveActor with no client descriptor: the session id.
resolveActor(sessionId) == sessionId

\* Bounds derived from MaxCalls: suspended invocations, identifiers allocated,
\* and room in the ledger for every invocation that may still append to it.
MaxPending == MaxCalls - 2
MaxPlans == MaxCalls - 2
HasRoom == Len(events) + Len(tasks) < MaxCalls

Frame(mode, sessionId, tool, payload, actionId) ==
  [mode |-> mode, sessionId |-> sessionId, tool |-> tool, payload |-> payload,
   actionId |-> actionId]

RemoveAt(seq, i) == SubSeq(seq, 1, i - 1) \o SubSeq(seq, i + 1, Len(seq))

\* One input per check at the head of execute: <<model, values, mode>>.
BadInputs ==
  { <<"ir.cron", << <<"name", "Bob">> >>, "plan">>,
    <<"account.move", << <<"name", "Bob">> >>, "plan">>,
    <<"res.partner", << <<"name", "Bob">> >>, "apply">>,
    <<"res.partner", << <<"sneaky", "x">> >>, "confirm">> }

\* execute, when an input check throws: the catch returns {error}.
CallRejected ==
  \E input \in BadInputs :
    /\ inputError(input[1], input[2], input[3]) # "ok"
    /\ lastCall' = Rejected("execute")
    /\ UNCHANGED <<storeVars, now, toolVars, hostVars, edgeVars>>

\* execute, mode "plan": recordPlan, no await.  The callers and the values
\* they send are parameters, as are the bounds: `room` says the ledger has
\* room for one more invocation, `plans` limits the identifiers allocated.
CallPlanOf(callers, inputs, room, plans) ==
  \E c \in callers, model \in WRITABLE_MODELS, values \in inputs :
    /\ inputError(model, values, "plan") = "ok"
    /\ room
    /\ nextId <= plans
    /\ recordPlan(c[1], c[2], Payload(model, sanitizeValues(values)),
                  resolveActor(c[1]))
    /\ UNCHANGED <<now, tasks, downstream, hostVars, edgeVars>>

CallPlan == CallPlanOf(Callers, ValuesInputs, HasRoom, MaxPlans)

\* execute, mode "dry_run", up to `await checkDryRunAccess(...)`; `suspended`
\* limits the invocations suspended at an await.
CallDryRunOf(callers, inputs, room, suspended) ==
  \E c \in callers, model \in WRITABLE_MODELS, values \in inputs :
    /\ inputError(model, values, "dry_run") = "ok"
    /\ room
    /\ Len(tasks) < suspended
    /\ tasks' = Append(tasks, Frame("dry_run", c[1], c[2],
                         Payload(model, sanitizeValues(values)), <<>>))
    /\ lastCall' = Call("checkAccessRights", <<>>, c[1], c[2],
                        Payload(model, sanitizeValues(values)), "ok", <<>>)
    /\ UNCHANGED <<storeVars, now, downstream, hostVars, edgeVars>>

CallDryRun == CallDryRunOf(Callers, ValuesInputs, HasRoom, MaxPending)

\* execute, mode "dry_run", after the await: recordDryRun with the default TTL.
ResumeDryRun ==
  \E i \in 1..Len(tasks) :
    /\ tasks[i].mode = "dry_run"
    /\ recordDryRun(tasks[i].sessionId, tasks[i].tool, tasks[i].payload,
                    resolveActor(tasks[i].sessionId), <<>>)
    /\ tasks' = RemoveAt(tasks, i)
    /\ UNCHANGED <<now, downstream, hostVars, edgeVars>>

\* execute, mode "confirm", up to `await odooConnector.create(...)`: the
\* action_id check, validateConfirm, and the downstream call being issued.
CallConfirmOf(callers, inputs, room, suspended) ==
  \E c \in callers, model \in WRITABLE_MODELS, values \in inputs,
     action_id \in {<<>>} \cup {<<i>> : i \in 1..nextId} :
    LET s == c[1]
        t == c[2]
        payload == Payload(model, sanitizeValues(values))
        outcome == IF action_id = <<>>
                     THEN "Confirmation requires a valid action_id from dry_run."
                     ELSE validateConfirm(action_id[1], s, t, payload)
    IN /\ inputError(model, values, "confirm") = "ok"
       /\ lastCall' = IF outcome = "ok"
                        THEN Call("validateConfirm", action_id, s, t, payload,
                                  outcome, <<>>)
                        ELSE Rejected("execute")
       /\ IF outcome = "ok"
            THEN /\ room
                 /\ Len(tasks) < suspended
                 /\ Len(downstream) < suspended
                 /\ downstream' = Append(downstream,
                      [tool |-> t, actionId |-> action_id[1], sessionId |-> s,
                       payload |-> payload])
                 /\ tasks' = Append(tasks, Frame("confirm", s, t, payload,
                                                 action_id))
            ELSE UNCHANGED toolVars
       /\ UNCHANGED <<storeVars, now, hostVars, edgeVars>>

CallConfirm == CallConfirmOf(Callers, ValuesInputs, HasRoom, MaxPending)

\* execute, mode "confirm", after the downstream call returned: recordConfirm.
ResumeConfirm ==
  \E i \in 1..Len(tasks) :
    /\ tasks[i].mode = "confirm"
    /\ recordConfirm(tasks[i].actionId[1], tasks[i].sessionId, tasks[i].tool,
                     tasks[i].payload, resolveActor(tasks[i].sessionId))
    /\ tasks' = RemoveAt(tasks, i)
    /\ UNCHANGED <<now, downstream, hostVars, edgeVars>>

\* The catch of the confirm branch recording the confirm stage all the same.
FailConfirmRecords ==
  \E i \in 1..Len(tasks) :
    /\ tasks[i].mode = "confirm"
    /\ tasks[i].actionId[1] \in DOMAIN lifecycles
    /\ lifecycles' = [lifecycles EXCEPT ![tasks[i].actionId[1]].confirm =
                        << [actionId |-> tasks[i].actionId[1],
                            mode |-> "confirm", payload |-> tasks[i].payload,
                            confirmedBy |-> resolveActor(tasks[i].sessionId),
                            confirmedAt |-> now, expiresAt |-> <<>>] >>]
    /\ lastCall' = Call("downstream", tasks[i].actionId, tasks[i].sessionId,
                        tasks[i].tool, tasks[i].payload,
                        "downstream call failed", <<>>)
    /\ tasks' = RemoveAt(tasks, i)
    /\ UNCHANGED <<signatureIndex, events, nextId, now, downstream, hostVars,
                   edgeVars>>

\* execute, mode "confirm", when the downstream call raised: the catch
\* returns {error} and the store is not called again.
FailConfirm ==
  \E i \in 1..Len(tasks) :
    /\ tasks[i].mode = "confirm"
    /\ lastCall' = Call("downstream", tasks[i].actionId, tasks[i].sessionId,
                        tasks[i].tool, tasks[i].payload,
                        "downstream call failed", <<>>)
    /\ tasks' = RemoveAt(tasks, i)
    /\ UNCHANGED <<storeVars, now, downstream, hostVars, edgeVars>>

Next ==
  \/ CallRejected
  \/ CallPlan
  \/ CallDryRun
  \/ ResumeDryRun
  \/ CallConfirm
  \/ ResumeConfirm
  \/ FailConfirm
  \/ Tick

Spec == Init /\ [][Next]_vars

----
\* ---- One caller repeating one request ----
\* A single session calling odoo.create with the same values over and over:
\* the inputs are few, so the invocations can be many.
MaxRaceCalls == 6     \* tool invocations that may append to the ledger

RaceCallers == { <<"session-1", "odoo.create">> }
RaceInputs == { << <<"name", "Alice">>, <<"email", "a@x">> >> }
RaceRoom == Len(events) + Len(tasks) < MaxRaceCalls
MaxRacePending == MaxRaceCalls - 4
MaxRacePlans == MaxRaceCalls - 3

RacePlan == CallPlanOf(RaceCallers, RaceInputs, RaceRoom, MaxRacePlans)
RaceDryRun == CallDryRunOf(RaceCallers, RaceInputs, RaceRoom, MaxRacePending)
RaceConfirm == CallConfirmOf(RaceCallers, RaceInputs, RaceRoom, MaxRacePending)

NextRace ==
  \/ RacePlan
  \/ RaceDryRun
  \/ ResumeDryRun
  \/ RaceConfirm
  \/ ResumeConfirm
  \/ FailConfirm
  \/ Tick

SpecRace == Init /\ [][NextRace]_vars

----
\* ---- The store driven directly through its public methods ----
StoreSessions == {"session-1"}
StoreTools == {"odoo.create"}

PlanCall ==
  \E s \in StoreSessions, t \in StoreTools, p \in Payloads :
    /\ Len(events) < MaxEvents
    /\ recordPlan(s, t, p, "Reviewer")
    /\ UNCHANGED <<now, toolVars, hostVars, edgeVars>>

DryRunCall ==
  \E s \in StoreSessions, t \in StoreTools, p \in Payloads,
     ttl \in {<<>>, <<0>>} :
    /\ recordDryRunOutcome(s, t, p) = "ok" => Len(events) < MaxEvents
    /\ recordDryRun(s, t, p, "Reviewer", ttl)
    /\ UNCHANGED <<now, toolVars, hostVars, edgeVars>>

ValidateCall ==
  \E id \in 1..nextId, s \in StoreSessions, t \in StoreTools, p \in Payloads :
    /\ lastCall' = Call("validateConfirm", <<id>>, s, t, p,
                        validateConfirm(id, s, t, p), <<>>)
    /\ UNCHANGED <<storeVars, now, toolVars, hostVars, edgeVars>>

ConfirmCall ==
  \E id \in 1..nextId, s \in StoreSessions, t \in StoreTools, p \in Payloads :
    /\ id \in DOMAIN lifecycles => Len(events) < MaxEvents
    /\ recordConfirm(id, s, t, p, "Reviewer")
    /\ UNCHANGED <<now, toolVars, hostVars, edgeVars>>

NextStore == PlanCall \/ DryRunCall \/ ValidateCall \/ ConfirmCall \/ Tick

SpecStore == Init /\ [][NextStore]_vars

----
\* ---- The host (src/src/mcp.ts: Host and WebSocketConnection) ----
\* Bounds of the host model.
MaxFrames == 3        \* frames received, over all connections
MaxConnections == 1   \* connections accepted
MaxChunks == 2        \* elements of a sequence a tool handler returns

\* A JSON primitive is <<type, text>>; an absent member of an object is <<>>
\* and a present one <<primitive>>.
JNull == <<"null", "">>
JNumber(text) == <<"number", text>>
JString(text) == <<"string", text>>

\* The members of a request object that the host reads.
Params(name, client) == [name |-> name, client |-> client]
Request(jsonrpc, method, id, params) ==
  [jsonrpc |-> jsonrpc, method |-> method, id |-> id, params |-> params]

NoRequest == Request(<<>>, <<>>, <<>>, <<>>)

\* The text of a frame, by what JSON.parse makes of it: it throws
\* ("garbage"), or returns a primitive or an object.
Garbage == [kind |-> "garbage", prim |-> JNull, obj |-> NoRequest]
Primitive(v) == [kind |-> "primitive", prim |-> v, obj |-> NoRequest]
Object(r) == [kind |-> "object", prim |-> JNull, obj |-> r]

\* A frame as decodeFrame returns it; `code` is the status code of a close
\* frame's payload, absent when the payload is shorter than two bytes.
InFrame(fin, opcode, text, code) ==
  [fin |-> fin, opcode |-> opcode, text |-> text, code |-> code]

\* message.id ?? null
IdOrNull(message) == IF message.id = <<>> THEN JNull ELSE message.id[1]

\* message.params?.client ?? null
ClientOrNull(message) ==
  IF message.params = <<>> \/ message.params[1].client = <<>>
    THEN JNull
    ELSE message.params[1].client[1]

\* typeof id === 'string' ? id : String(id)
InvocationIdOf(id) == id[2]

\* ToolRegistry.get(name) is defined
Registered(name) == name \in ToolNames

\* The state the host's handlers read and write, as one value.
HostState ==
  [sessions |-> sessions, conn |-> conn, events |-> events, wire |-> wire,
   invocations |-> invocations, uncaught |-> uncaught]

\* A frame written to a socket.  `inv` numbers the invocation a frame belongs
\* to (0: none) and `chunk` the element of the sequence it carries.
OutFrame(to, opcode, kind, id, code, detail, inv, chunk) ==
  [to |-> to, opcode |-> opcode, kind |-> kind, id |-> id, code |-> code,
   detail |-> detail, inv |-> inv, chunk |-> chunk]

\* An event of the host on the ledger.
HostEvent(type, sessionId, tool, invocationId, inv, code) ==
  [type |-> type, sessionId |-> sessionId, tool |-> tool,
   invocationId |-> invocationId, inv |-> inv, code |-> code]

append(h, event) == [h EXCEPT !.events = Append(@, event)]

\* WebSocketConnection.send without the check of `closed`.
sendAlways(h, sid, frame) == [h EXCEPT !.wire = Append(@, frame)]

\* WebSocketConnection.send: nothing is written once the connection is closed.
send(h, sid, frame) ==
  IF h.conn[sid].closed THEN h ELSE [h EXCEPT !.wire = Append(@, frame)]

sendResponse(h, sid, id, result, inv) ==
  send(h, sid, OutFrame(sid, 1, "result", id, 0, result, inv, 0))

sendError(h, sid, id, code, message) ==
  send(h, sid, OutFrame(sid, 1, "error", id, code, message, 0, 0))

sendNotification(h, sid, invocationId, inv, chunk) ==
  send(h, sid, OutFrame(sid, 1, "notification", JString(invocationId), 0,
                        "tools/stream", inv, chunk))

\* WebSocketConnection.close: the close frame is written and the connection
\* marked closed; no 'close' event is emitted.
close(h, sid, code, reason) ==
  IF h.conn[sid].closed THEN h
  ELSE [h EXCEPT !.wire = Append(@, OutFrame(sid, 8, "close", JNull, code,
                                              reason, 0, 0)),
                 !.conn[sid].closed = TRUE]

\* handleInitialize that initializes again a session already initialized.
handleInitializeAgain(h, sid, message) ==
  sendResponse(
    append([h EXCEPT !.conn[sid].initialized = TRUE,
                     !.conn[sid].clientInfo = <<ClientOrNull(message)>>],
           HostEvent("session_initialized", sid, "", "", 0, 0)),
    sid, IdOrNull(message), "initialize", 0)

\* Host.handleInitialize
handleInitialize(h, sid, message) ==
  IF h.conn[sid].initialized
    THEN sendError(h, sid, IdOrNull(message), -32600,
                   "Session already initialized")
    ELSE sendResponse(
           append([h EXCEPT !.conn[sid].initialized = TRUE,
                            !.conn[sid].clientInfo = <<ClientOrNull(message)>>],
                  HostEvent("session_initialized", sid, "", "", 0, 0)),
           sid, IdOrNull(message), "initialize", 0)

\* Host.handleListTools
handleListTools(h, sid, message) ==
  IF ~h.conn[sid].initialized
    THEN sendError(h, sid, IdOrNull(message), -32001, "Session not initialized")
    ELSE sendResponse(h, sid, IdOrNull(message), "tools", 0)

\* The number the next invocation gets: one more than were started so far.
NextInv(h) ==
  1 + Cardinality({i \in 1..Len(h.events) :
                     h.events[i].type = "tool_invocation_started"})

\* An invocation in flight: the async function of handleCallTool, suspended
\* at `await tool.execute(...)` ("running") or inside `for await`
\* ("streaming", `sent` elements out of `total` sent so far, the handler
\* raising after the last of them when `raises`).
Invocation(inv, sid, id, tool, stage, sent, total, raises) ==
  [inv |-> inv, sid |-> sid, id |-> id, tool |-> tool, stage |-> stage,
   sent |-> sent, total |-> total, raises |-> raises]

\* handleCallTool past its checks: the started event is appended and
\* tool.execute called; the async function suspends at its first await.
startInvocation(h, sid, id, tool) ==
  [append(h, HostEvent("tool_invocation_started", sid, tool,
                       InvocationIdOf(id), NextInv(h), 0))
     EXCEPT !.invocations =
       Append(@, Invocation(NextInv(h), sid, id, tool, "running", 0, 0, FALSE))]

\* The tool name of a tools/call message, <<>> when it is not a string.
ToolNameOf(message) ==
  IF \/ message.params = <<>>
     \/ message.params[1].name = <<>>
     \/ message.params[1].name[1][1] # "string"
    THEN <<>>
    ELSE <<message.params[1].name[1][2]>>

\* handleCallTool without the check of session.initialized.
handleCallToolNoInit(h, sid, message) ==
  IF IdOrNull(message) = JNull
    THEN sendError(h, sid, JNull, -32600,
                   "Tool invocation requires a request id")
  ELSE IF ToolNameOf(message) = <<>>
    THEN sendError(h, sid, IdOrNull(message), -32602, "Missing tool name")
  ELSE IF ~Registered(ToolNameOf(message)[1])
    THEN sendError(h, sid, IdOrNull(message), -32601, "Unknown tool")
  ELSE startInvocation(h, sid, IdOrNull(message), ToolNameOf(message)[1])

\* handleCallTool without the check of the request id.
handleCallToolNoId(h, sid, message) ==
  IF ~h.conn[sid].initialized
    THEN sendError(h, sid, IdOrNull(message), -32001, "Session not initialized")
  ELSE IF ToolNameOf(message) = <<>>
    THEN sendError(h, sid, IdOrNull(message), -32602, "Missing tool name")
  ELSE IF ~Registered(ToolNameOf(message)[1])
    THEN sendError(h, sid, IdOrNull(message), -32601, "Unknown tool")
  ELSE startInvocation(h, sid, IdOrNull(message), ToolNameOf(message)[1])

\* handleCallTool without the lookup in the registry.
handleCallToolNoLookup(h, sid, message) ==
  IF ~h.conn[sid].initialized
    THEN sendError(h, sid, IdOrNull(message), -32001, "Session not initialized")
  ELSE IF IdOrNull(message) = JNull
    THEN sendError(h, sid, JNull, -32600,
                   "Tool invocation requires a request id")
  ELSE IF ToolNameOf(message) = <<>>
    THEN sendError(h, sid, IdOrNull(message), -32602, "Missing tool name")
  ELSE startInvocation(h, sid, IdOrNull(message), ToolNameOf(message)[1])

\* handleCallTool refusing a call while the session has one in flight.
handleCallToolOneAtATime(h, sid, message) ==
  IF ~h.conn[sid].initialized
    THEN sendError(h, sid, IdOrNull(message), -32001, "Session not initialized")
  ELSE IF IdOrNull(message) = JNull
    THEN sendError(h, sid, JNull, -32600,
                   "Tool invocation requires a request id")
  ELSE IF ToolNameOf(message) = <<>>
    THEN sendError(h, sid, IdOrNull(message), -32602, "Missing tool name")
  ELSE IF ~Registered(ToolNameOf(message)[1])
    THEN sendError(h, sid, IdOrNull(message), -32601, "Unknown tool")
  ELSE IF \E i \in 1..Len(h.invocations) : h.invocations[i].sid = sid
    THEN sendError(h, sid, IdOrNull(message), -32000, "Session busy")
  ELSE startInvocation(h, sid, IdOrNull(message), ToolNameOf(message)[1])

\* Host.handleCallTool, up to the first await of the async function: the
\* dispatch checks, the started event, and the call of tool.execute.
handleCallTool(h, sid, message) ==
  IF ~h.conn[sid].initialized
    THEN sendError(h, sid, IdOrNull(message), -32001, "Session not initialized")
  ELSE IF IdOrNull(message) = JNull
    THEN sendError(h, sid, JNull, -32600,
                   "Tool invocation requires a request id")
  ELSE IF ToolNameOf(message) = <<>>
    THEN sendError(h, sid, IdOrNull(message), -32602, "Missing tool name")
  ELSE IF ~Registered(ToolNameOf(message)[1])
    THEN sendError(h, sid, IdOrNull(message), -32601, "Unknown tool")
  ELSE startInvocation(h, sid, IdOrNull(message), ToolNameOf(message)[1])

\* Host.handleIncomingMessage.  JSON.parse returning null makes
\* `message.jsonrpc` raise a TypeError, which nothing on the way up catches.
handleIncomingMessage(h, sid, raw) ==
  IF raw.kind = "garbage"
    THEN sendError(h, sid, JNull, -32700, "Invalid JSON received from client")
  ELSE IF raw.kind = "primitive"
    THEN IF raw.prim = JNull
           THEN [h EXCEPT !.uncaught = TRUE]
           ELSE sendError(h, sid, JNull, -32600, "Invalid request")
  ELSE LET message == raw.obj IN
    IF \/ message.jsonrpc # <<JString("2.0")>>
       \/ message.method = <<>>
       \/ message.method[1][1] # "string"
      THEN sendError(h, sid, IdOrNull(message), -32600, "Invalid request")
    ELSE CASE message.method[1][2] = "initialize" ->
                handleInitialize(h, sid, message)
           [] message.method[1][2] = "tools/list" ->
                handleListTools(h, sid, message)
           [] message.method[1][2] = "tools/call" ->
                handleCallTool(h, sid, message)
           [] message.method[1][2] = "ping" ->
                sendResponse(h, sid, IdOrNull(message), "pong", 0)
           [] OTHER ->
                sendError(h, sid, IdOrNull(message), -32601, "Method not found")

\* handleSessionClosed that also drops the invocations of the session.
handleSessionClosedCancels(h, sid, code) ==
  append([h EXCEPT !.sessions = @ \ {sid},
                   !.invocations = SelectSeq(@, LAMBDA v : v.sid # sid)],
         HostEvent("session_closed", sid, "", "", 0, code))

\* Host.handleSessionClosed
handleSessionClosed(h, sid, code) ==
  append([h EXCEPT !.sessions = @ \ {sid}],
         HostEvent("session_closed", sid, "", "", 0, code))

\* Host.handleSessionError
handleSessionError(h, sid) ==
  append(h, HostEvent("session_error", sid, "", "", 0, 0))

\* decodeCloseFrame: the status code, 1005 when the payload has none.
decodeCloseFrame(frame) == IF frame.code = <<>> THEN 1005 ELSE frame.code[1]

\* WebSocketConnection.handleData, the loop over the frames in the buffer.
\* decodeFrame returns the first frame of the buffer, or null when the
\* buffer holds no complete frame.
RECURSIVE handleFrames(_, _)
handleFrames(h, sid) ==
  IF h.conn[sid].buffer = <<>> THEN h
  ELSE LET frame == Head(h.conn[sid].buffer)
           h1 == [h EXCEPT !.conn[sid].buffer = Tail(@)]
       IN CASE frame.opcode = 1 ->
                 IF ~frame.fin
                   THEN close(h1, sid, 1003,
                              "Fragmented frames are not supported")
                 ELSE LET h2 == handleIncomingMessage(h1, sid, frame.text)
                      IN IF h2.uncaught THEN h2 ELSE handleFrames(h2, sid)
            [] frame.opcode = 8 ->
                 [handleSessionClosed(h1, sid, decodeCloseFrame(frame))
                    EXCEPT !.conn[sid].closed = TRUE]
            [] frame.opcode = 9 ->
                 handleFrames(
                   [h1 EXCEPT !.wire = Append(@, OutFrame(sid, 10, "pong",
                                                JNull, 0, "", 0, 0))],
                   sid)
            [] frame.opcode = 10 -> handleFrames(h1, sid)
            [] OTHER -> close(h1, sid, 1003, "Unsupported WebSocket opcode")

\* WebSocketConnection.handleData
handleData(h, sid, chunk) ==
  handleFrames([h EXCEPT !.conn[sid].buffer = @ \o chunk], sid)

\* handleSocketEnd without the check of `closed`.
handleSocketEndAgain(h, sid) ==
  handleSessionClosed([h EXCEPT !.conn[sid].closed = TRUE], sid, 1006)

\* WebSocketConnection.handleSocketEnd
handleSocketEnd(h, sid) ==
  IF h.conn[sid].closed THEN h
  ELSE handleSessionClosed([h EXCEPT !.conn[sid].closed = TRUE], sid, 1006)

\* ---- The host's inputs ----
Call2(method, id, params) ==
  Object(Request(<<JString("2.0")>>, <<JString(method)>>, id, params))

\* The texts a client sends: one per branch of the dispatcher.
Texts ==
  { Garbage,
    Primitive(JNull),
    Primitive(JNumber("5")),
    Object(Request(<<>>, <<JString("ping")>>, <<JNumber("1")>>, <<>>)),
    Object(Request(<<JString("2.0")>>, <<JNumber("7")>>, <<JNumber("1")>>,
                   <<>>)),
    Call2("initialize", <<JNumber("1")>>,
          <<Params(<<>>, <<JString("client-a")>>)>>),
    Call2("initialize", <<JNumber("2")>>, <<>>),
    Call2("tools/list", <<JNumber("1")>>, <<>>),
    Call2("tools/call", <<JNumber("1")>>,
          <<Params(<<JString("odoo.create")>>, <<>>)>>),
    Call2("tools/call", <<>>, <<Params(<<JString("odoo.create")>>, <<>>)>>),
    Call2("tools/call", <<JNull>>, <<Params(<<JString("odoo.delete")>>, <<>>)>>),
    Call2("tools/call", <<JNumber("1")>>,
          <<Params(<<JString("odoo.delete")>>, <<>>)>>),
    Call2("tools/call", <<JNumber("1")>>, <<>>),
    Call2("ping", <<JNumber("1")>>, <<>>),
    Call2("tools/run", <<JNumber("1")>>, <<>>) }

\* The frames a client sends: every text complete, one text fragmented, a
\* close frame, a ping frame and a binary frame.
FrameInputs ==
  { InFrame(TRUE, 1, t, <<>>) : t \in Texts }
    \cup { InFrame(FALSE, 1, Call2("ping", <<JNumber("1")>>, <<>>), <<>>),
           InFrame(TRUE, 8, Garbage, <<1000>>),
           InFrame(TRUE, 9, Garbage, <<>>),
           InFrame(TRUE, 2, Garbage, <<>>) }

\* What a socket delivers in one 'data' event: one frame or two.
Chunks ==
  { <<f>> : f \in FrameInputs } \cup
  { <<f, g>> : f \in FrameInputs, g \in FrameInputs }

\* How a tool handler settles: it returns a value, returns a value that
\* JSON.stringify rejects, raises, or returns a sequence that yields `total`
\* elements and then ends or raises.
HandlerOutcomes ==
  { [kind |-> "value", total |-> 0, raises |-> FALSE],
    [kind |-> "unserializable", total |-> 0, raises |-> FALSE],
    [kind |-> "raise", total |-> 0, raises |-> TRUE],
    [kind |-> "sequence", total |-> 0, raises |-> FALSE],
    [kind |-> "sequence", total |-> MaxChunks, raises |-> FALSE],
    [kind |-> "sequence", total |-> MaxChunks - 1, raises |-> TRUE] }

RECURSIVE SumReceived(_)
SumReceived(c) ==
  IF c = <<>> THEN 0 ELSE Head(c).received + SumReceived(Tail(c))

\* The host's handlers leave the action store and the write tools alone.
Becomes(h) ==
  /\ sessions' = h.sessions
  /\ conn' = h.conn
  /\ events' = h.events
  /\ wire' = h.wire
  /\ invocations' = h.invocations
  /\ uncaught' = h.uncaught
  /\ UNCHANGED <<lifecycles, signatureIndex, nextId, now, toolVars, lastCall,
                 edgeVars>>

\* ---- The host's steps ----
\* Host.handleUpgrade: a connection is accepted and its session created.
Connect ==
  /\ ~uncaught
  /\ Len(conn) < MaxConnections
  /\ LET sid == Len(conn) + 1
         h == [HostState EXCEPT
                 !.conn = Append(@, [initialized |-> FALSE, clientInfo |-> <<>>,
                                     closed |-> FALSE, buffer |-> <<>>,
                                     open |-> TRUE, ended |-> FALSE,
                                     errored |-> FALSE, received |-> 0]),
                 !.sessions = @ \cup {sid}]
     IN Becomes(append(h, HostEvent("session_connected", sid, "", "", 0, 0)))

\* The socket's 'data' event.
Data ==
  \E sid \in 1..Len(conn), chunk \in Chunks :
    /\ ~uncaught
    /\ conn[sid].open
    /\ ~conn[sid].ended
    /\ ~conn[sid].errored
    /\ SumReceived(conn) + Len(chunk) <= MaxFrames
    /\ Becomes(handleData(
         [HostState EXCEPT !.conn[sid].received = @ + Len(chunk)], sid, chunk))

\* The socket's 'end' event: the peer has sent its FIN, no data follows.
SocketEnd ==
  \E sid \in 1..Len(conn) :
    /\ ~uncaught
    /\ conn[sid].open
    /\ ~conn[sid].ended
    /\ ~conn[sid].errored
    /\ Becomes(handleSocketEnd([HostState EXCEPT !.conn[sid].ended = TRUE],
                               sid))

\* The socket's 'error' event: the transport failed; the connection emits
\* 'error' and Host.handleSessionError records it.  Only 'close' follows.
SocketError ==
  \E sid \in 1..Len(conn) :
    /\ ~uncaught
    /\ conn[sid].open
    /\ ~conn[sid].errored
    /\ Becomes(handleSessionError([HostState EXCEPT !.conn[sid].errored = TRUE],
                                   sid))

\* The socket's 'close' event: the socket is gone, after its 'end' event or,
\* when the transport failed, without one.
SocketClose ==
  \E sid \in 1..Len(conn) :
    /\ ~uncaught
    /\ conn[sid].open
    /\ Becomes(handleSocketEnd([HostState EXCEPT !.conn[sid].open = FALSE],
                               sid))

\* The events and the frame that end an invocation.
completed(h, v, result) ==
  append(sendResponse(h, v.sid, v.id, result, v.inv),
         HostEvent("tool_invocation_completed", v.sid, v.tool,
                   InvocationIdOf(v.id), v.inv, 0))

\* The catch of handleCallTool appending no event.
failedSilently(h, v, message) == sendError(h, v.sid, v.id, -32000, message)

\* The catch of handleCallTool closing the connection after its reply.
failedAndClose(h, v, message) ==
  close(sendError(append(h, HostEvent("tool_invocation_failed", v.sid, v.tool,
                                      InvocationIdOf(v.id), v.inv, 0)),
                  v.sid, v.id, -32000, message),
        v.sid, 1011, "Internal error")

failed(h, v, message) ==
  sendError(append(h, HostEvent("tool_invocation_failed", v.sid, v.tool,
                                InvocationIdOf(v.id), v.inv, 0)),
            v.sid, v.id, -32000, message)

\* handleCallTool's async function resumes after `await tool.execute(...)`.
Settle ==
  \E i \in 1..Len(invocations), outcome \in HandlerOutcomes :
    LET v == invocations[i]
        gone == [HostState EXCEPT !.invocations = RemoveAt(@, i)]
    IN /\ ~uncaught
       /\ v.stage = "running"
       /\ CASE outcome.kind = "value" -> Becomes(completed(gone, v, "completed"))
            [] outcome.kind = "unserializable" ->
                 Becomes(failed(gone, v, "value cannot be serialized"))
            [] outcome.kind = "raise" -> Becomes(failed(gone, v, "handler raised"))
            [] OTHER ->
                 Becomes([HostState EXCEPT
                            !.invocations[i].stage = "streaming",
                            !.invocations[i].total = outcome.total,
                            !.invocations[i].raises = outcome.raises])

\* A turn of the loop that sends nothing for its element.
StreamNextSkips ==
  \E i \in 1..Len(invocations) :
    /\ ~uncaught
    /\ invocations[i].stage = "streaming"
    /\ invocations[i].sent < invocations[i].total
    /\ Becomes([HostState EXCEPT !.invocations[i].sent = @ + 1])

\* One turn of `for await (const chunk of toAsyncIterable(result))`.
StreamNext ==
  \E i \in 1..Len(invocations) :
    LET v == invocations[i] IN
      /\ ~uncaught
      /\ v.stage = "streaming"
      /\ v.sent < v.total
      /\ Becomes(sendNotification(
           [HostState EXCEPT !.invocations[i].sent = @ + 1],
           v.sid, InvocationIdOf(v.id), v.inv, v.sent + 1))

\* The sequence ends, or its generator raises.
StreamEnd ==
  \E i \in 1..Len(invocations) :
    LET v == invocations[i]
        gone == [HostState EXCEPT !.invocations = RemoveAt(@, i)]
    IN /\ ~uncaught
       /\ v.stage = "streaming"
       /\ v.sent = v.total
       /\ IF v.raises
            THEN Becomes(failed(gone, v, "handler raised"))
            ELSE Becomes(completed(gone, v, "streamed"))

NextHost ==
  \/ Connect
  \/ Data
  \/ SocketEnd
  \/ SocketError
  \/ SocketClose
  \/ Settle
  \/ StreamNext
  \/ StreamEnd

SpecHost == Init /\ [][NextHost]_vars

\* Every socket closes at some time: the peer closes it or the network does.
SpecHostFair == SpecHost /\ WF_vars(SocketClose)

----
\* ---- The frame codec (src/src/mcp.ts: decodeFrame, encodeFrame) ----
\* A Buffer is the sequence of its bytes, each in 0..255.  Offsets are those
\* of the source, counted from 0: the byte at offset o is buf[o + 1].

readUInt16BE(buf, offset) == buf[offset + 1] * 256 + buf[offset + 2]

readUInt32BE(buf, offset) ==
  ((buf[offset + 1] * 256 + buf[offset + 2]) * 256 + buf[offset + 3]) * 256
    + buf[offset + 4]

writeUInt16BE(value) == << (value \div 256) % 256, value % 256 >>

writeUInt32BE(value) ==
  << (value \div 16777216) % 256, (value \div 65536) % 256,
     (value \div 256) % 256, value % 256 >>

\* a ^ b on two bytes, bit by bit.
RECURSIVE XorBits(_, _, _)
XorBits(a, b, n) ==
  IF n = 0 THEN 0
  ELSE (IF a % 2 = b % 2 THEN 0 ELSE 1) + 2 * XorBits(a \div 2, b \div 2, n - 1)

\* applyMask: result[i] = buffer[i] ^ mask[i % 4]
applyMask(buf, mask) ==
  [i \in 1..Len(buf) |-> XorBits(buf[i], mask[((i - 1) % 4) + 1], 8)]

\* What decodeFrame does with a buffer: it returns null, returns a frame, or
\* throws.
DecodedFrame(kind, fin, opcode, payload, totalLength) ==
  [kind |-> kind, fin |-> fin, opcode |-> opcode, payload |-> payload,
   totalLength |-> totalLength]

DecodedNull == DecodedFrame("null", FALSE, 0, <<>>, 0)
DecodedThrow == DecodedFrame("throw", FALSE, 0, <<>>, 0)

\* decodeFrame
decodeFrame(buf) ==
  IF Len(buf) < 2 THEN DecodedNull
  ELSE LET firstByte == buf[1]
           secondByte == buf[2]
           fin == firstByte \div 128 = 1
           opcode == firstByte % 16
           masked == secondByte \div 128 = 1
           lengthByte == secondByte % 128
       IN IF lengthByte = 126 /\ Len(buf) < 2 + 2 THEN DecodedNull
          ELSE IF lengthByte = 127 /\ Len(buf) < 2 + 8 THEN DecodedNull
          ELSE IF lengthByte = 127 /\ readUInt32BE(buf, 2) # 0 THEN DecodedThrow
          ELSE LET payloadLength ==
                     CASE lengthByte = 126 -> readUInt16BE(buf, 2)
                       [] lengthByte = 127 -> readUInt32BE(buf, 2 + 4)
                       [] OTHER -> lengthByte
                   keyOffset ==
                     CASE lengthByte = 126 -> 2 + 2
                       [] lengthByte = 127 -> 2 + 8
                       [] OTHER -> 2
                   offset == IF masked THEN keyOffset + 4 ELSE keyOffset
               IN IF masked /\ Len(buf) < keyOffset + 4 THEN DecodedNull
                  ELSE IF Len(buf) < offset + payloadLength THEN DecodedNull
                  ELSE LET raw == SubSeq(buf, offset + 1, offset + payloadLength)
                       IN DecodedFrame("frame", fin, opcode,
                            IF masked
                              THEN applyMask(raw, SubSeq(buf, keyOffset + 1,
                                                         keyOffset + 4))
                              ELSE raw,
                            offset + payloadLength)

\* encodeFrame with the first limit off by one: a payload of 126 bytes still
\* gets the 7-bit length form.
encodeFrameSevenBit(payload, opcode) ==
  LET firstByte == 128 + (opcode % 16)
  IN IF Len(payload) <= 126
       THEN <<firstByte, Len(payload)>> \o payload
     ELSE IF Len(payload) < 65536
       THEN <<firstByte, 126>> \o writeUInt16BE(Len(payload)) \o payload
     ELSE <<firstByte, 127>> \o writeUInt32BE(0)
            \o writeUInt32BE(Len(payload)) \o payload

\* encodeFrame: fin set, no mask, the shortest length form.
encodeFrame(payload, opcode) ==
  LET firstByte == 128 + (opcode % 16)
  IN IF Len(payload) < 126
       THEN <<firstByte, Len(payload)>> \o payload
     ELSE IF Len(payload) < 65536
       THEN <<firstByte, 126>> \o writeUInt16BE(Len(payload)) \o payload
     ELSE <<firstByte, 127>> \o writeUInt32BE(0)
            \o writeUInt32BE(Len(payload)) \o payload

\* Payloads for the codec: every sequence of at most two bytes over three
\* byte values, and one payload on each side of the limits of the length
\* forms (125 | 126 and 65535 | 65536).
Pattern(length, seed) == [i \in 1..length |-> (7 * i + seed) % 256]

CodecPayloads ==
  {<<>>}
    \cup { <<x>> : x \in {0, 97, 255} }
    \cup { <<x, y>> : x \in {0, 97, 255}, y \in {0, 97, 255} }
    \cup { Pattern(n, s) : n \in {125, 126, 127}, s \in {0, 1} }
    \cup { Pattern(n, 0) : n \in {65535, 65536} }

\* The opcodes the connection encodes frames with: text, close and pong.
CodecOpcodes == {1, 8, 10}

InitCodec ==
  /\ InitCore
  /\ InitBytes
  /\ InitConnector
  /\ plain \in CodecPayloads
  /\ encoded = <<>>
  /\ decoded = <<>>

\* encodeFrame(payload, opcode)
Encode ==
  \E opcode \in CodecOpcodes :
    /\ encoded = <<>>
    /\ encoded' = << [opcode |-> opcode, bytes |-> encodeFrame(plain, opcode)] >>
    /\ UNCHANGED <<plain, decoded>>
    /\ UNCHANGED <<storeVars, now, toolVars, lastCall, hostVars, byteVars,
                   connectorVars>>

\* decodeFrame(buffer) on the bytes encodeFrame returned
Decode ==
  /\ encoded # <<>>
  /\ decoded = <<>>
  /\ decoded' = << decodeFrame(encoded[1].bytes) >>
  /\ UNCHANGED <<plain, encoded>>
  /\ UNCHANGED <<storeVars, now, toolVars, lastCall, hostVars, byteVars,
                 connectorVars>>

NextCodec == Encode \/ Decode

SpecCodec == InitCodec /\ [][NextCodec]_vars

----
\* ---- The connection, byte by byte (WebSocketConnection.handleData) ----
MaxPeerFrames == 2    \* frames a peer writes to its socket

\* An entry of `emitted`: a 'message' or 'close' event handed to the
\* listeners, or a frame written to the socket.
Emitted(kind, code, bytes) == [kind |-> kind, code |-> code, bytes |-> bytes]

FreshConnection ==
  [buffer |-> <<>>, closed |-> FALSE, emitted |-> <<>>, thrown |-> FALSE]

\* Buffer.from(reason, 'utf8') of the two reasons the connection closes with.
FragmentedReason ==
  <<70, 114, 97, 103, 109, 101, 110, 116, 101, 100, 32, 102, 114, 97,
    109, 101, 115, 32, 97, 114, 101, 32, 110, 111, 116, 32, 115, 117,
    112, 112, 111, 114, 116, 101, 100>>

UnsupportedReason ==
  <<85, 110, 115, 117, 112, 112, 111, 114, 116, 101, 100, 32, 87, 101,
    98, 83, 111, 99, 107, 101, 116, 32, 111, 112, 99, 111, 100, 101>>

\* WebSocketConnection.close, on bytes: the close frame carries the code and
\* the reason; nothing is written when the connection is closed already.
closeBytes(c, code, reason) ==
  IF c.closed THEN c
  ELSE [c EXCEPT
          !.emitted = Append(@, Emitted("write", code,
                               encodeFrame(writeUInt16BE(code) \o reason, 8))),
          !.closed = TRUE]

\* decodeCloseFrame, on bytes: the code of a close frame's payload.
decodeCloseFrameBytes(payload) ==
  IF Len(payload) < 2 THEN 1005 ELSE readUInt16BE(payload, 0)

\* The loop of handleData: decode the frame at the head of the buffer, drop
\* its bytes, act on it, until decodeFrame returns null, the handler returns
\* or decodeFrame throws.
RECURSIVE handleBuffer(_)
handleBuffer(c) ==
  LET frame == decodeFrame(c.buffer) IN
    IF frame.kind = "throw" THEN [c EXCEPT !.thrown = TRUE]
    ELSE IF frame.kind = "null" THEN c
    ELSE LET c1 == [c EXCEPT !.buffer = SubSeq(@, frame.totalLength + 1, Len(@))]
         IN CASE frame.opcode = 1 ->
                   IF ~frame.fin
                     THEN closeBytes(c1, 1003, FragmentedReason)
                     ELSE handleBuffer(
                            [c1 EXCEPT !.emitted =
                               Append(@, Emitted("message", 0, frame.payload))])
              [] frame.opcode = 8 ->
                   [c1 EXCEPT
                      !.emitted = Append(@, Emitted("close",
                                    decodeCloseFrameBytes(frame.payload), <<>>)),
                      !.closed = TRUE]
              [] frame.opcode = 9 ->
                   handleBuffer(
                     [c1 EXCEPT !.emitted =
                        Append(@, Emitted("write", 0,
                                          encodeFrame(frame.payload, 10)))])
              [] frame.opcode = 10 -> handleBuffer(c1)
              [] OTHER -> closeBytes(c1, 1003, UnsupportedReason)

\* WebSocketConnection.handleData, on bytes.
handleDataBytes(c, chunk) == handleBuffer([c EXCEPT !.buffer = @ \o chunk])

\* A frame as a client writes it: the header byte, the length in the form
\* asked for (7, 16 or 64 bits; `high` is the upper half of a 64-bit length),
\* the masking key when there is one, and the payload, masked with it.
PeerFrame(firstByte, form, high, key, payload) ==
  LET maskBit == IF key = <<>> THEN 0 ELSE 128
      body == IF key = <<>> THEN payload ELSE applyMask(payload, key)
  IN CASE form = 7 -> <<firstByte, maskBit + Len(payload)>> \o key \o body
       [] form = 16 ->
            <<firstByte, maskBit + 126>> \o writeUInt16BE(Len(payload))
              \o key \o body
       [] OTHER ->
            <<firstByte, maskBit + 127>> \o writeUInt32BE(high)
              \o writeUInt32BE(Len(payload)) \o key \o body

\* The frames a peer writes: texts in each length form, masked and not, a
\* fragment, close frames with and without a code, ping, pong, a binary
\* frame, and the header of a frame of 4 GiB.
PeerFrames ==
  { PeerFrame(129, 7, 0, <<>>, <<97>>),
    PeerFrame(129, 7, 0, <<1, 2, 3, 4>>, <<97, 98>>),
    PeerFrame(129, 16, 0, <<>>, <<97>>),
    PeerFrame(129, 64, 0, <<255, 0, 7, 9>>, <<97>>),
    PeerFrame(1, 7, 0, <<>>, <<97>>),
    PeerFrame(136, 7, 0, <<1, 2, 3, 4>>, writeUInt16BE(1000)),
    PeerFrame(136, 7, 0, <<>>, <<>>),
    PeerFrame(137, 7, 0, <<>>, <<97>>),
    PeerFrame(138, 7, 0, <<>>, <<>>),
    PeerFrame(130, 7, 0, <<>>, <<97>>),
    PeerFrame(129, 64, 1, <<>>, <<>>) }

RECURSIVE Flatten(_)
Flatten(writes) ==
  IF writes = <<>> THEN <<>> ELSE Head(writes) \o Flatten(Tail(writes))

\* The peer writes one more frame to its socket.
PeerWrite ==
  \E f \in PeerFrames :
    /\ Len(stream) < MaxPeerFrames
    /\ stream' = Append(stream, f)
    /\ pending' = pending \o f
    /\ UNCHANGED connection
    /\ UNCHANGED <<storeVars, now, toolVars, lastCall, hostVars, codecVars,
                   connectorVars>>

\* A 'data' event delivers the next k bytes, wherever the frames end.  An
\* exception leaving the listener ends the process.
Deliver ==
  \E k \in 1..Len(pending) :
    /\ ~connection.thrown
    /\ connection' = handleDataBytes(connection, SubSeq(pending, 1, k))
    /\ pending' = SubSeq(pending, k + 1, Len(pending))
    /\ UNCHANGED stream
    /\ UNCHANGED <<storeVars, now, toolVars, lastCall, hostVars, codecVars,
                   connectorVars>>

NextBytes == PeerWrite \/ Deliver

SpecBytes == Init /\ [][NextBytes]_vars

----
\* ---- The connector (src/src/odoo-connector.ts: OdooConnector) ----
MaxTransportCalls == 3    \* calls a connector makes on its transport

NotConnectedMessage == "Not connected to Odoo. Please call connect() first."

\* What JsonRpcTransport.connect resolves with, and what it and request throw.
Uids == {0, 42}

ConnectFailures ==
  { "Authentication failed. Ensure your credentials and API access are correct.",
    "The request to Odoo timed out.",
    "Odoo request failed with status 500" }

\* What transport.executeKw does with a call: it resolves or it throws.
ExecuteOutcomes == {"ok", "The request to Odoo timed out."}

\* A call on the transport.
TransportCall(name, m, method) == [name |-> name, model |-> m, method |-> method]

\* The public methods built on execute, with the method each hands to it;
\* execute and callKw pass the method they are given.
Wrappers ==
  { <<"execute", "search_read">>, <<"searchRead", "search_read">>,
    <<"read", "read">>, <<"count", "search_count">>, <<"create", "create">>,
    <<"write", "write">>, <<"unlink", "unlink">>,
    <<"callKw", "name_get">>,
    <<"checkAccessRights", "check_access_rights">> }

\* ensureConnected that never throws.
ensureConnectedAlways(u) == TRUE

\* ensureConnected: TRUE when it returns, FALSE when it throws.
ensureConnected(u) == u # <<>>

\* connect(), up to its await: transport.connect() is called.
ConnectorConnect ==
  /\ Len(transport) < MaxTransportCalls
  /\ transport' = Append(transport, TransportCall("connect", "", ""))
  /\ connecting' = connecting + 1
  /\ UNCHANGED uid
  /\ UNCHANGED <<storeVars, now, toolVars, lastCall, hostVars, byteVars,
                 codecVars>>

\* connect(), after its await: transport.connect() resolved with a uid.
ConnectResolves ==
  \E n \in Uids :
    /\ connecting > 0
    /\ uid' = <<n>>
    /\ connecting' = connecting - 1
    /\ lastCall' = Call("connect", <<>>, "", "", NoPayload, "ok", <<n>>)
    /\ UNCHANGED transport
    /\ UNCHANGED <<storeVars, now, toolVars, hostVars, byteVars, codecVars>>

\* connect(), its await throwing: transport.connect() rejected.
ConnectRejects ==
  \E message \in ConnectFailures :
    /\ connecting > 0
    /\ connecting' = connecting - 1
    /\ lastCall' = Call("connect", <<>>, "", "", NoPayload, message, <<>>)
    /\ UNCHANGED <<uid, transport>>
    /\ UNCHANGED <<storeVars, now, toolVars, hostVars, byteVars, codecVars>>

\* execute(model, method, ...), called directly or by a wrapper; the outcome of
\* the transport's call is execute's own.
Execute ==
  \E w \in Wrappers, outcome \in ExecuteOutcomes :
    /\ Len(transport) < MaxTransportCalls
    /\ IF ensureConnected(uid)
         THEN /\ transport' = Append(transport,
                                TransportCall("executeKw", "res.partner", w[2]))
              /\ lastCall' = Call(w[1], <<>>, "", "", NoPayload, outcome, <<>>)
         ELSE /\ lastCall' = Call(w[1], <<>>, "", "", NoPayload,
                                  NotConnectedMessage, <<>>)
              /\ UNCHANGED transport
    /\ UNCHANGED <<uid, connecting>>
    /\ UNCHANGED <<storeVars, now, toolVars, hostVars, byteVars, codecVars>>

\* getVersion(): transport.callCommon('version'), with no ensureConnected.
GetVersion ==
  /\ Len(transport) < MaxTransportCalls
  /\ transport' = Append(transport, TransportCall("callCommon", "", "version"))
  /\ lastCall' = Call("getVersion", <<>>, "", "", NoPayload, "ok", <<>>)
  /\ UNCHANGED <<uid, connecting>>
  /\ UNCHANGED <<storeVars, now, toolVars, hostVars, byteVars, codecVars>>

NextConnector ==
  \/ ConnectorConnect
  \/ ConnectResolves
  \/ ConnectRejects
  \/ Execute
  \/ GetVersion

SpecConnector == Init /\ [][NextConnector]_vars

----
\* ---- Properties ----
\* What a payload says, whatever the order of its keys.
ContentOf(payload) ==
  <<payload.model, {payload.values[i] : i \in 1..Len(payload.values)}>>

\* The (session, tool, payload content) a call or an event is about.
TripleOf(r) == <<r.sessionId, r.tool, ContentOf(r.payload)>>

\* C1: the downstream mutating call of a write tool is issued at most once
\* per action identifier, under every interleaving of tools/call invocations.
C1_DownstreamAtMostOncePerAction ==
  \A i, j \in 1..Len(downstream) :
    downstream[i].actionId = downstream[j].actionId => i = j

\* C2: a lifecycle's confirm stage is recorded at most once: the ledger holds
\* at most one action_confirm_recorded event per action identifier, and no
\* step replaces an existing confirm stage by another.
C2_ConfirmRecordedOnce ==
  /\ [](\A i, j \in 1..Len(events) :
          (/\ events[i].type = "action_confirm_recorded"
           /\ events[j].type = "action_confirm_recorded"
           /\ events[i].actionId = events[j].actionId) => i = j)
  /\ [][\A id \in DOMAIN lifecycles :
          (lifecycles[id].confirm # <<>> /\ id \in DOMAIN lifecycles')
            => lifecycles'[id].confirm = lifecycles[id].confirm]_vars

\* C3: a downstream mutation is issued only by a confirm invocation whose
\* validateConfirm has just succeeded: the action is known, owned by the
\* calling session and tool, carries the presented payload, has an approved
\* and unexpired dry_run, and is not yet confirmed.  Plan and dry_run
\* invocations issue none.
C3_MutationOnlyAfterValidConfirm ==
  [][downstream' # downstream =>
       /\ Len(downstream') = Len(downstream) + 1
       /\ SubSeq(downstream', 1, Len(downstream)) = downstream
       /\ LET call == downstream'[Len(downstream')]
              id == call.actionId
          IN /\ lastCall'.op = "validateConfirm"
             /\ lastCall'.outcome = "ok"
             /\ lastCall'.actionId = <<id>>
             /\ Len(tasks') = Len(tasks) + 1
             /\ tasks'[Len(tasks')].mode = "confirm"
             /\ tasks'[Len(tasks')].actionId = <<id>>
             /\ id \in DOMAIN lifecycles
             /\ lifecycles[id].sessionId = call.sessionId
             /\ lifecycles[id].tool = call.tool
             /\ ContentOf(lifecycles[id].payload) = ContentOf(call.payload)
             /\ lifecycles[id].dryRun # <<>>
             /\ lifecycles[id].dryRun[1].approvedBy # ""
             /\ lifecycles[id].dryRun[1].expiresAt >= now
             /\ lifecycles[id].confirm = <<>>]_vars

\* C3 witness: a confirm invocation has passed validateConfirm and issued its
\* downstream call.
C3_Witness ==
  /\ Len(downstream) > 0
  /\ lastCall.op = "validateConfirm"
  /\ lastCall.outcome = "ok"

\* C4: on a planned and dry-run-approved action inside its approval window,
\* validateConfirm with the owner's session and tool succeeds for the approved
\* payload, and for a payload of other content it fails with the
\* payload-mismatch error and changes neither the store nor the ledger.
C4_ConfirmValidatesApprovedPayload ==
  [][lastCall'.op = "validateConfirm" =>
       LET id == lastCall'.actionId[1] IN
         (/\ id \in DOMAIN lifecycles
          /\ lifecycles[id].plan # <<>>
          /\ lifecycles[id].dryRun # <<>>
          /\ lifecycles[id].confirm = <<>>
          /\ lifecycles[id].dryRun[1].approvedBy # ""
          /\ lifecycles[id].dryRun[1].expiresAt >= now
          /\ lifecycles[id].sessionId = lastCall'.sessionId
          /\ lifecycles[id].tool = lastCall'.tool)
         => IF ContentOf(lastCall'.payload)
                 = ContentOf(lifecycles[id].dryRun[1].payload)
              THEN lastCall'.outcome = "ok"
              ELSE /\ lastCall'.outcome =
                        "Confirmation payload differs from the approved dry_run."
                   /\ UNCHANGED <<lifecycles, signatureIndex, events>>]_vars

\* C4 witness: validateConfirm was called on a dry-run-approved action with a
\* payload of other content and answered with the payload-mismatch error.
C4_Witness ==
  /\ lastCall.op = "validateConfirm"
  /\ lastCall.outcome = "Confirmation payload differs from the approved dry_run."
  /\ lastCall.actionId[1] \in DOMAIN lifecycles
  /\ lifecycles[lastCall.actionId[1]].dryRun # <<>>

\* C5 as stated: once an action has its plan, dry_run and confirm stages,
\* validateConfirm with its session, tool and payload fails with
\* 'Action already confirmed.'.
C5_AlreadyConfirmedMessage ==
  (/\ lastCall.op = "validateConfirm"
   /\ lastCall.actionId[1] \in DOMAIN lifecycles
   /\ lifecycles[lastCall.actionId[1]].plan # <<>>
   /\ lifecycles[lastCall.actionId[1]].dryRun # <<>>
   /\ lifecycles[lastCall.actionId[1]].confirm # <<>>
   /\ TripleOf(lifecycles[lastCall.actionId[1]]) = TripleOf(lastCall))
  => lastCall.outcome = "Action already confirmed."

\* C5 amended: once an action has its plan, an approved dry_run and a confirm
\* stage, validateConfirm with its session, tool and payload never succeeds:
\* it fails with 'Action already confirmed.' while the approval has not
\* expired and with the expiry error once it has.
C5_ConfirmedActionNeverValidates ==
  (/\ lastCall.op = "validateConfirm"
   /\ lastCall.actionId[1] \in DOMAIN lifecycles
   /\ lifecycles[lastCall.actionId[1]].plan # <<>>
   /\ lifecycles[lastCall.actionId[1]].dryRun # <<>>
   /\ lifecycles[lastCall.actionId[1]].dryRun[1].approvedBy # ""
   /\ lifecycles[lastCall.actionId[1]].confirm # <<>>
   /\ TripleOf(lifecycles[lastCall.actionId[1]]) = TripleOf(lastCall))
  => lastCall.outcome =
       IF lifecycles[lastCall.actionId[1]].dryRun[1].expiresAt < now
         THEN "Dry_run approval has expired. Please run a new dry_run."
         ELSE "Action already confirmed."

\* C5 witness: validateConfirm on a confirmed action answered
\* 'Action already confirmed.'.
C5_Witness ==
  /\ lastCall.op = "validateConfirm"
  /\ lastCall.outcome = "Action already confirmed."
  /\ lifecycles[lastCall.actionId[1]].confirm # <<>>

\* C6: recordDryRun for a (session, tool, payload) whose signature is not in
\* the signature index fails with the missing-plan error and leaves the
\* lifecycle map, the signature index and the ledger as they were.
C6_DryRunWithoutPlanFails ==
  [][(/\ lastCall'.op = "recordDryRun"
      /\ computeSignature(lastCall'.sessionId, lastCall'.tool, lastCall'.payload)
           \notin DOMAIN signatureIndex)
     => /\ lastCall'.outcome = "A prior plan run is required before dry_run."
        /\ UNCHANGED <<lifecycles, signatureIndex, events>>]_vars

\* C6 witness: recordDryRun was refused for want of a plan while the store
\* already held another action.
C6_Witness ==
  /\ lastCall.op = "recordDryRun"
  /\ lastCall.outcome = "A prior plan run is required before dry_run."
  /\ Len(events) > 0

\* C7: two consecutive recordPlan calls for the same (session, tool, payload)
\* return distinct identifiers; afterwards the signature index leads to the
\* second only, and a following recordDryRun for that triple returns it.
C7_ReplanSupersedes ==
  \A i \in 1..Len(events) :
    (/\ i + 1 <= Len(events)
     /\ events[i].type = "action_plan_recorded"
     /\ events[i + 1].type = "action_plan_recorded"
     /\ TripleOf(events[i]) = TripleOf(events[i + 1]))
    => /\ events[i].actionId # events[i + 1].actionId
       /\ (i + 1 = Len(events)) =>
            /\ \A sig \in DOMAIN signatureIndex :
                 signatureIndex[sig] # events[i].actionId
            /\ \E sig \in DOMAIN signatureIndex :
                 signatureIndex[sig] = events[i + 1].actionId
       /\ (/\ i + 2 <= Len(events)
           /\ events[i + 2].type = "action_dry_run_recorded"
           /\ TripleOf(events[i + 2]) = TripleOf(events[i]))
          => events[i + 2].actionId = events[i + 1].actionId

\* C7 witness: plan, plan again, then dry_run, all for one triple.
C7_Witness ==
  /\ Len(events) >= 3
  /\ events[1].type = "action_plan_recorded"
  /\ events[2].type = "action_plan_recorded"
  /\ events[3].type = "action_dry_run_recorded"
  /\ TripleOf(events[1]) = TripleOf(events[2])
  /\ TripleOf(events[2]) = TripleOf(events[3])

C9_ReapprovalNeedsNewPlan ==
  /\ \A i, j \in 1..Len(events) :
       (/\ i < j
        /\ events[i].type = "action_confirm_recorded"
        /\ events[j].type = "action_dry_run_recorded"
        /\ \E k \in 1..i :
             /\ events[k].type = "action_plan_recorded"
             /\ events[k].actionId = events[i].actionId
             /\ TripleOf(events[k]) = TripleOf(events[j]))
       => \E k \in (i + 1)..(j - 1) :
             /\ events[k].type = "action_plan_recorded"
             /\ TripleOf(events[k]) = TripleOf(events[j])
             /\ events[k].actionId = events[j].actionId
             /\ events[k].actionId # events[i].actionId
  /\ \A i, j \in 1..Len(events) :
       (/\ events[i].type = "action_plan_recorded"
        /\ events[j].type = "action_plan_recorded"
        /\ events[i].actionId = events[j].actionId) => i = j
  /\ (lastCall.op = "validateConfirm" /\ lastCall.outcome = "ok")
       => /\ lifecycles[lastCall.actionId[1]].dryRun # <<>>
          /\ lifecycles[lastCall.actionId[1]].dryRun[1].actionId
               = lastCall.actionId[1]
          /\ \E j \in 1..Len(events) :
               /\ events[j].type = "action_dry_run_recorded"
               /\ events[j].actionId = lastCall.actionId[1]

\* C9 witness: a confirm is on the ledger and recordDryRun for the confirmed
\* action's triple has just been refused.
C9_Witness ==
  /\ lastCall.op = "recordDryRun"
  /\ lastCall.outcome # "ok"
  /\ \E i \in 1..Len(events) :
       /\ events[i].type = "action_confirm_recorded"
       /\ events[i].actionId \in DOMAIN lifecycles
       /\ TripleOf(lifecycles[events[i].actionId]) = TripleOf(lastCall)

\* C10: a lifecycle planned by one session is never approved, validated or
\* changed by another: validateConfirm by another session never succeeds on
\* it, a recordDryRun returns only an action of the calling session, and every
\* step that changes or removes a lifecycle is a store call of its owner.
C10_SessionIsolation ==
  /\ [](\A id \in DOMAIN lifecycles : \A c \in Callers : \A v \in ValuesInputs :
          c[1] # lifecycles[id].sessionId
            => validateConfirm(id, c[1], c[2],
                               Payload("res.partner", sanitizeValues(v))) # "ok")
  /\ [][/\ \A id \in DOMAIN lifecycles :
             (id \notin DOMAIN lifecycles' \/ lifecycles'[id] # lifecycles[id])
               => /\ lastCall'.op \in {"recordPlan", "recordDryRun", "recordConfirm"}
                  /\ lastCall'.sessionId = lifecycles[id].sessionId
        /\ (lastCall'.op = "recordDryRun" /\ lastCall'.outcome = "ok")
             => lifecycles'[lastCall'.result[1]].sessionId = lastCall'.sessionId
       ]_vars

\* C10 witness: while session-1 owns a lifecycle, session-2 has just called
\* the store for the same tool and payload.
C10_Witness ==
  /\ lastCall.sessionId = "session-2"
  /\ lastCall.op \in {"recordPlan", "recordDryRun"}
  /\ \E id \in DOMAIN lifecycles :
       /\ lifecycles[id].sessionId = "session-1"
       /\ lifecycles[id].tool = lastCall.tool
       /\ ContentOf(lifecycles[id].payload) = ContentOf(lastCall.payload)

----
\* ---- Properties of the host ----
\* The method of a text that passes the envelope check of the dispatcher,
\* "" for a text that does not.
MethodOf(text) ==
  IF /\ text.kind = "object"
     /\ text.obj.jsonrpc = <<JString("2.0")>>
     /\ text.obj.method # <<>>
     /\ text.obj.method[1][1] = "string"
    THEN text.obj.method[1][2]
    ELSE ""

\* The request id a reply to a text carries.
ReplyId(text) == IF text.kind = "object" THEN IdOrNull(text.obj) ELSE JNull

\* C11: initialize succeeds at most once per session.  Once the initialized
\* flag is set no step clears it or changes the stored client descriptor, the
\* ledger holds at most one session_initialized event per session, and an
\* initialize request dispatched on an initialized session changes nothing
\* and, while the connection is open, is answered with error -32600.
C11_InitializeOnce ==
  /\ [](\A sid \in 1..Len(conn) :
          /\ \A i, j \in 1..Len(events) :
               (/\ events[i].type = "session_initialized"
                /\ events[j].type = "session_initialized"
                /\ events[i].sessionId = sid
                /\ events[j].sessionId = sid) => i = j
          /\ \A text \in Texts :
               (MethodOf(text) = "initialize" /\ conn[sid].initialized)
                 => handleIncomingMessage(HostState, sid, text) =
                      IF conn[sid].closed THEN HostState
                      ELSE [HostState EXCEPT !.wire =
                              Append(@, OutFrame(sid, 1, "error", ReplyId(text),
                                                 -32600,
                                                 "Session already initialized",
                                                 0, 0))])
  /\ [][\A sid \in 1..Len(conn) :
          conn[sid].initialized =>
            /\ conn'[sid].initialized
            /\ conn'[sid].clientInfo = conn[sid].clientInfo]_vars

\* C11 witness: a second initialize was refused on an initialized session.
C11_Witness ==
  \E sid \in 1..Len(conn), i \in 1..Len(wire) :
    /\ conn[sid].initialized
    /\ wire[i].to = sid
    /\ wire[i].code = -32600
    /\ wire[i].detail = "Session already initialized"

\* C12: on a session that is not initialized, a tools/list or tools/call
\* request changes nothing, starts no invocation and appends no event, and
\* while the connection is open it is answered with error -32001; every
\* tool_invocation_started event on the ledger follows the session_initialized
\* event of its session.
C12_UninitializedRefused ==
  /\ \A sid \in 1..Len(conn), text \in Texts :
       (MethodOf(text) \in {"tools/list", "tools/call"}
          /\ ~conn[sid].initialized)
         => handleIncomingMessage(HostState, sid, text) =
              IF conn[sid].closed THEN HostState
              ELSE [HostState EXCEPT !.wire =
                      Append(@, OutFrame(sid, 1, "error", ReplyId(text), -32001,
                                         "Session not initialized", 0, 0))]
  /\ \A i \in 1..Len(events) :
       events[i].type = "tool_invocation_started"
         => \E j \in 1..(i - 1) :
              /\ events[j].type = "session_initialized"
              /\ events[j].sessionId = events[i].sessionId

\* C12 witness: a request on a session not yet initialized was answered with
\* -32001.
C12_Witness ==
  \E sid \in 1..Len(conn), i \in 1..Len(wire) :
    /\ ~conn[sid].initialized
    /\ wire[i].to = sid
    /\ wire[i].code = -32001

\* C13 as stated: a tools/call on an initialized session that names a tool
\* absent from the registry is answered with error -32601 and changes nothing
\* else.
C13_UnknownToolAlways32601 ==
  \A sid \in 1..Len(conn), text \in Texts :
    (/\ MethodOf(text) = "tools/call"
     /\ ToolNameOf(text.obj) # <<>>
     /\ ~Registered(ToolNameOf(text.obj)[1])
     /\ conn[sid].initialized
     /\ ~conn[sid].closed)
    => handleIncomingMessage(HostState, sid, text) =
         [HostState EXCEPT !.wire =
            Append(@, OutFrame(sid, 1, "error", ReplyId(text), -32601,
                               "Unknown tool", 0, 0))]

\* C13 amended: a tools/call on an initialized session that names a tool
\* absent from the registry starts no invocation, appends no event and leaves
\* the connection open; while the connection is open it is answered with
\* exactly one error, which is -32601 when the request carries a non-null id
\* (and -32600 when it carries none).  Every invocation started is of a
\* registered tool.
C13_UnknownToolRefused ==
  /\ \A sid \in 1..Len(conn), text \in Texts :
       (/\ MethodOf(text) = "tools/call"
        /\ ToolNameOf(text.obj) # <<>>
        /\ ~Registered(ToolNameOf(text.obj)[1])
        /\ conn[sid].initialized)
       => handleIncomingMessage(HostState, sid, text) =
            IF conn[sid].closed THEN HostState
            ELSE [HostState EXCEPT !.wire =
                    Append(@, IF ReplyId(text) = JNull
                                THEN OutFrame(sid, 1, "error", JNull, -32600,
                                       "Tool invocation requires a request id",
                                       0, 0)
                                ELSE OutFrame(sid, 1, "error", ReplyId(text),
                                       -32601, "Unknown tool", 0, 0))]
  /\ \A i \in 1..Len(events) :
       events[i].type = "tool_invocation_started"
         => Registered(events[i].tool)

\* C13 witness: an unknown tool was refused with -32601 and the connection is
\* still open.
C13_Witness ==
  \E sid \in 1..Len(conn), i \in 1..Len(wire) :
    /\ conn[sid].initialized
    /\ ~conn[sid].closed
    /\ conn[sid].open
    /\ wire[i].to = sid
    /\ wire[i].code = -32601
    /\ wire[i].detail = "Unknown tool"

\* C14: a tools/call request whose id is absent or null starts no invocation
\* and appends no event; while the connection is open it is answered with
\* exactly one error.  Every invocation started carries a request id.
C14_NoIdNoInvocation ==
  /\ \A sid \in 1..Len(conn), text \in Texts :
       (MethodOf(text) = "tools/call" /\ ReplyId(text) = JNull)
         => LET after == handleIncomingMessage(HostState, sid, text) IN
              /\ after.events = events
              /\ after.invocations = invocations
              /\ after.conn = conn
              /\ after.wire # wire =>
                   /\ Len(after.wire) = Len(wire) + 1
                   /\ SubSeq(after.wire, 1, Len(wire)) = wire
                   /\ after.wire[Len(after.wire)].kind = "error"
                   /\ after.wire[Len(after.wire)].id = JNull
              /\ after.wire = wire => conn[sid].closed
  /\ \A i \in 1..Len(events) :
       events[i].type = "tool_invocation_started"
         => events[i].invocationId # InvocationIdOf(JNull)
  /\ \A i \in 1..Len(invocations) : invocations[i].id # JNull

\* C14 witness: a tools/call without an id was refused on an initialized
\* session.
C14_Witness ==
  \E i \in 1..Len(wire) :
    /\ wire[i].kind = "error"
    /\ wire[i].detail = "Tool invocation requires a request id"

\* C15: a text frame with fin=0 makes the server close the connection with
\* code 1003, and from then on no frame of that connection produces a message
\* event or a reply: a later 'data' event on it writes no text frame, starts
\* no invocation, raises nothing, leaves the session as it is and appends no
\* event other than the session's session_closed.
C15_FragmentClosesAndStops ==
  /\ [](\A sid \in 1..Len(conn), f \in FrameInputs :
          (/\ f.opcode = 1
           /\ ~f.fin
           /\ ~conn[sid].closed
           /\ conn[sid].buffer = <<>>)
          => handleData(HostState, sid, <<f>>) =
               close(HostState, sid, 1003,
                     "Fragmented frames are not supported"))
  /\ [][\A sid \in 1..Len(conn) :
          (/\ \E i \in 1..Len(wire) :
                /\ wire[i].to = sid
                /\ wire[i].opcode = 8
                /\ wire[i].code = 1003
                /\ wire[i].detail = "Fragmented frames are not supported"
           /\ conn'[sid].received > conn[sid].received)
          => /\ Len(events') >= Len(events)
             /\ \A i \in 1..Len(events') :
                  IF i <= Len(events) THEN events'[i] = events[i]
                  ELSE events'[i].type = "session_closed"
             /\ Len(wire') >= Len(wire)
             /\ \A i \in 1..Len(wire') :
                  IF i <= Len(wire) THEN wire'[i] = wire[i]
                  ELSE wire'[i].opcode # 1
             /\ invocations' = invocations
             /\ uncaught' = uncaught
             /\ conn'[sid].initialized = conn[sid].initialized
             /\ conn'[sid].clientInfo = conn[sid].clientInfo]_vars

\* C16: every session in the host's session set leaves it once the socket of
\* its connection has ended, whichever side closed the connection.
C16_SessionsEventuallyRemoved ==
  \A sid \in 1..MaxConnections :
    (sid \in sessions /\ ~conn[sid].open) ~> (sid \notin sessions)

\* C17: the elements of a sequence a handler returns go out as tools/stream
\* notifications that carry the invocation id, one per element and in
\* generation order, all of them before the terminal response
\* {status: completed, streamed: true} of their invocation; an invocation
\* whose result is not a sequence has no notification.
C17_StreamBeforeTerminal ==
  /\ [](/\ \A i \in 1..Len(wire) :
             wire[i].kind = "notification" =>
               /\ \E e \in 1..Len(events) :
                    /\ events[e].type = "tool_invocation_started"
                    /\ events[e].inv = wire[i].inv
                    /\ events[e].sessionId = wire[i].to
                    /\ wire[i].id = JString(events[e].invocationId)
               /\ wire[i].chunk =
                    1 + Cardinality({j \in 1..(i - 1) :
                                       /\ wire[j].kind = "notification"
                                       /\ wire[j].inv = wire[i].inv})
               /\ \A j \in 1..(i - 1) :
                    ~(wire[j].kind = "result" /\ wire[j].inv = wire[i].inv)
        /\ \A i \in 1..Len(wire) :
             (wire[i].kind = "result" /\ wire[i].detail = "completed") =>
               \A j \in 1..Len(wire) :
                 ~(wire[j].kind = "notification" /\ wire[j].inv = wire[i].inv)
        /\ \A i \in 1..Len(invocations) :
             ~conn[invocations[i].sid].closed =>
               Cardinality({j \in 1..Len(wire) :
                              /\ wire[j].kind = "notification"
                              /\ wire[j].inv = invocations[i].inv})
                 = invocations[i].sent)
  /\ [][(/\ Len(wire') = Len(wire) + 1
         /\ wire'[Len(wire')].kind = "result"
         /\ wire'[Len(wire')].detail = "streamed")
        => \E i \in 1..Len(invocations) :
             /\ invocations[i].inv = wire'[Len(wire')].inv
             /\ invocations[i].id = wire'[Len(wire')].id
             /\ Cardinality({j \in 1..Len(wire) :
                               /\ wire[j].kind = "notification"
                               /\ wire[j].inv = invocations[i].inv})
                  = invocations[i].total]_vars

\* C17 witness: a sequence of MaxChunks elements was streamed and its
\* terminal response sent.
C17_Witness ==
  \E k \in 1..Len(wire) :
    /\ wire[k].kind = "result"
    /\ wire[k].detail = "streamed"
    /\ Cardinality({j \in 1..(k - 1) :
                      /\ wire[j].kind = "notification"
                      /\ wire[j].inv = wire[k].inv}) = MaxChunks

\* C18: every invocation has its tool_invocation_started event from the
\* moment its handler runs, and once it is over exactly one of
\* tool_invocation_completed / tool_invocation_failed, never both and never
\* neither, whether the handler returned, raised, raised mid-stream or
\* returned a value that cannot be sent.
C18_OneTerminalEvent ==
  /\ \A i \in 1..Len(invocations) :
       \E e \in 1..Len(events) :
         /\ events[e].type = "tool_invocation_started"
         /\ events[e].inv = invocations[i].inv
  /\ \A i, j \in 1..Len(events) :
       (/\ events[i].type = "tool_invocation_started"
        /\ events[j].type = "tool_invocation_started"
        /\ events[i].inv = events[j].inv) => i = j
  /\ \A i \in 1..Len(events) :
       events[i].type \in {"tool_invocation_completed",
                           "tool_invocation_failed"} =>
         \E e \in 1..(i - 1) :
           /\ events[e].type = "tool_invocation_started"
           /\ events[e].inv = events[i].inv
           /\ events[e].sessionId = events[i].sessionId
           /\ events[e].invocationId = events[i].invocationId
  /\ \A e \in 1..Len(events) :
       events[e].type = "tool_invocation_started" =>
         Cardinality({i \in 1..Len(events) :
                        /\ events[i].type \in {"tool_invocation_completed",
                                               "tool_invocation_failed"}
                        /\ events[i].inv = events[e].inv})
           = IF \E i \in 1..Len(invocations) :
                   invocations[i].inv = events[e].inv
               THEN 0 ELSE 1

\* C18 witness: a handler raised mid-stream and its invocation has its failed
\* event.
C18_Witness ==
  \E i \in 1..Len(events), j \in 1..Len(wire) :
    /\ events[i].type = "tool_invocation_failed"
    /\ wire[j].kind = "notification"
    /\ wire[j].inv = events[i].inv

\* C19: when a handler raises, the step that records the failure sends error
\* -32000 with the handler's message for the request id (while the connection
\* is open), closes no connection and changes no session; an open connection
\* answers a later request.
C19_HandlerErrorKeepsSession ==
  /\ [][(/\ Len(events') = Len(events) + 1
         /\ events'[Len(events')].type = "tool_invocation_failed")
        => \E i \in 1..Len(invocations) :
             LET v == invocations[i] IN
               /\ v.inv = events'[Len(events')].inv
               /\ conn' = conn
               /\ sessions' = sessions
               /\ uncaught' = uncaught
               /\ IF conn[v.sid].closed THEN wire' = wire
                  ELSE \E message \in {"handler raised",
                                       "value cannot be serialized"} :
                         wire' = Append(wire, OutFrame(v.sid, 1, "error", v.id,
                                                       -32000, message, 0, 0))
       ]_vars
  /\ [](\A sid \in 1..Len(conn) :
          ~conn[sid].closed =>
            handleIncomingMessage(HostState, sid,
                                  Call2("ping", <<JNumber("1")>>, <<>>))
              = [HostState EXCEPT !.wire =
                   Append(@, OutFrame(sid, 1, "result", JNumber("1"), 0,
                                      "pong", 0, 0))])

\* C19 witness: a handler's error was sent and a later request on the same
\* session answered.
C19_Witness ==
  \E i, j \in 1..Len(wire) :
    /\ i < j
    /\ wire[i].kind = "error"
    /\ wire[i].code = -32000
    /\ wire[j].kind = "result"
    /\ wire[j].inv = 0
    /\ wire[j].to = wire[i].to

\* C20: a text that is not JSON, a JSON value without jsonrpc "2.0" or
\* without a string method, a repeated initialize, and a tools/list or
\* tools/call before initialize each get exactly one JSON-RPC error, leave the
\* connection open and change nothing else; no exception leaves the
\* dispatcher.
C20_EnvelopeViolationsAnswered ==
  /\ ~uncaught
  /\ \A sid \in 1..Len(conn), text \in Texts :
       (/\ ~conn[sid].closed
        /\ \/ MethodOf(text) = ""
           \/ MethodOf(text) = "initialize" /\ conn[sid].initialized
           \/ /\ MethodOf(text) \in {"tools/list", "tools/call"}
              /\ ~conn[sid].initialized)
       => LET after == handleIncomingMessage(HostState, sid, text) IN
            /\ ~after.uncaught
            /\ Len(after.wire) = Len(wire) + 1
            /\ after.wire[Len(after.wire)].kind = "error"
            /\ after.wire[Len(after.wire)].to = sid
            /\ after = [HostState EXCEPT !.wire = after.wire]

\* ---- Properties of the store, continued ----
\* C24: whatever sequence of recordPlan, recordDryRun, validateConfirm and
\* recordConfirm calls the store receives, no lifecycle has a confirm stage
\* without a dry_run stage nor a dry_run stage without a plan stage, and a
\* stage once set is never removed: the lifecycle stays in the map with it.
C24_StagesInOrder ==
  /\ [](\A id \in DOMAIN lifecycles :
          /\ lifecycles[id].confirm # <<>> => lifecycles[id].dryRun # <<>>
          /\ lifecycles[id].dryRun # <<>> => lifecycles[id].plan # <<>>)
  /\ [][\A id \in DOMAIN lifecycles :
          /\ id \in DOMAIN lifecycles'
          /\ lifecycles[id].plan # <<>> => lifecycles'[id].plan # <<>>
          /\ lifecycles[id].dryRun # <<>> => lifecycles'[id].dryRun # <<>>
          /\ lifecycles[id].confirm # <<>> => lifecycles'[id].confirm # <<>>]_vars

\* C26: a lifecycle superseded by a new recordPlan under its signature leaves
\* only the signature index: every identifier recordPlan has handed out stays
\* in the lifecycle map, and validateConfirm or recordConfirm called with one
\* is never answered as an unknown action.
C26_SupersededStaysResolvable ==
  /\ \A id \in 1..(nextId - 1) : id \in DOMAIN lifecycles
  /\ (/\ lastCall.op \in {"validateConfirm", "recordConfirm"}
      /\ lastCall.actionId[1] < nextId)
     => lastCall.outcome \notin
          {"Unknown action. Please re-run plan and dry_run.", "Unknown action."}

\* C27: recordDryRun allocates no identifier: it returns the action id of the
\* plan indexed under the signature and leaves the set of lifecycles as it
\* was; each call, a repeated one included, sets the dry_run stage with an
\* expiry of now + ttl (5 minutes when no ttl is given), after which
\* validateConfirm with that action id, session, tool and payload succeeds.
C27_DryRunRenewsApproval ==
  /\ [][\A s \in StoreSessions, t \in StoreTools, p \in Payloads,
           ttl \in {<<>>, <<0>>} :
          (/\ recordDryRunOutcome(s, t, p) = "ok"
           /\ recordDryRun(s, t, p, "Reviewer", ttl))
          => LET id == signatureIndex[computeSignature(s, t, p)] IN
               /\ nextId' = nextId
               /\ DOMAIN lifecycles' = DOMAIN lifecycles
               /\ signatureIndex' = signatureIndex
               /\ lastCall'.result = <<id>>
               /\ lifecycles'[id].dryRun # <<>>
               /\ lifecycles'[id].dryRun[1].approvedAt = now
               /\ lifecycles'[id].dryRun[1].expiresAt =
                    now + (IF ttl = <<>> THEN 5 * 60 * 1000 ELSE ttl[1])]_vars
  /\ []((lastCall.op = "recordDryRun" /\ lastCall.outcome = "ok")
         => validateConfirm(lastCall.result[1], lastCall.sessionId,
                            lastCall.tool, lastCall.payload) = "ok")

\* C27 witness: an approval given at the start has expired, recordDryRun was
\* called again for the same action and validateConfirm succeeds once more.
C27_Witness ==
  /\ lastCall.op = "recordDryRun"
  /\ lastCall.outcome = "ok"
  /\ now > 1 + DEFAULT_APPROVAL_TTL_MS
  /\ \E i, j \in 1..Len(events) :
       /\ i < j
       /\ events[i].type = "action_dry_run_recorded"
       /\ events[j].type = "action_dry_run_recorded"
       /\ events[i].actionId = lastCall.result[1]
       /\ events[j].actionId = lastCall.result[1]
  /\ lifecycles[lastCall.result[1]].dryRun[1].approvedAt = now
  /\ validateConfirm(lastCall.result[1], lastCall.sessionId, lastCall.tool,
                     lastCall.payload) = "ok"

\* C25: under every interleaving of plan, dry_run and confirm invocations of
\* the write tools, the lifecycle map holds at most one lifecycle without a
\* confirm stage per signature.
C25_OneLiveLifecyclePerSignature ==
  \A a, b \in DOMAIN lifecycles :
    (/\ lifecycles[a].signature = lifecycles[b].signature
     /\ lifecycles[a].confirm = <<>>
     /\ lifecycles[b].confirm = <<>>)
    => a = b

\* ---- Properties of the host, continued ----
\* The session_closed events of a session on the ledger.
ClosedEvents(sid) ==
  {i \in 1..Len(events) :
     events[i].type = "session_closed" /\ events[i].sessionId = sid}

\* C29: when a socket's 'end' or 'close' callback runs on a connection that
\* has neither received nor sent a close frame, the host appends one
\* session_closed event with code 1006 and drops the session; the callback
\* that runs after it appends nothing, and the 'error' callback appends no
\* session_closed event.  A connection whose transport ended, or failed and
\* closed, this way has exactly one session_closed event, with code 1006,
\* although both callbacks fired.
C29_AbnormalEndClosesOnce ==
  /\ [][\A sid \in 1..Len(conn) :
          (conn'[sid].ended # conn[sid].ended \/ conn'[sid].open # conn[sid].open)
          => IF conn[sid].closed
               THEN events' = events /\ sessions' = sessions
               ELSE /\ events' = Append(events, HostEvent("session_closed", sid,
                                                          "", "", 0, 1006))
                    /\ sessions' = sessions \ {sid}
                    /\ conn'[sid].closed]_vars
  /\ [][\A sid \in 1..Len(conn) :
          conn'[sid].errored # conn[sid].errored
          => /\ ClosedEvents(sid)' = ClosedEvents(sid)
             /\ sessions' = sessions
             /\ conn'[sid].closed = conn[sid].closed]_vars
  /\ [](\A sid \in 1..Len(conn) :
          (/\ conn[sid].ended \/ ~conn[sid].open
           /\ \A i \in 1..Len(wire) : wire[i].to = sid => wire[i].opcode # 8
           /\ \A i \in ClosedEvents(sid) : events[i].code = 1006)
          => /\ Cardinality(ClosedEvents(sid)) = 1
             /\ sid \notin sessions)

\* C29 witness: a socket's 'end' and 'close' callbacks have both run, no
\* close frame was sent, and the ledger holds one session_closed event, 1006.
C29_Witness ==
  \E sid \in 1..Len(conn) :
    /\ conn[sid].ended
    /\ ~conn[sid].open
    /\ \A i \in 1..Len(wire) : wire[i].to = sid => wire[i].opcode # 8
    /\ Cardinality(ClosedEvents(sid)) = 1
    /\ \A i \in ClosedEvents(sid) : events[i].code = 1006
    /\ conn[sid].received > 0

\* C29 witness, the transport failing: 'error' then 'close', no 'end'.
C29_WitnessError ==
  \E sid \in 1..Len(conn) :
    /\ conn[sid].errored
    /\ ~conn[sid].ended
    /\ ~conn[sid].open
    /\ Cardinality(ClosedEvents(sid)) = 1
    /\ \A i \in ClosedEvents(sid) : events[i].code = 1006

\* C30: a valid tools/call dispatched on an initialized session is started at
\* once, whatever invocations are still in flight: its
\* tool_invocation_started event is appended and its handler called beside
\* the others, which are left as they are.  A step that ends or advances one
\* invocation leaves the others untouched, so they end in any order.
C30_PipelinedCallsRunConcurrently ==
  /\ [](\A sid \in 1..Len(conn), text \in Texts :
          (/\ MethodOf(text) = "tools/call"
           /\ conn[sid].initialized
           /\ ReplyId(text) # JNull
           /\ ToolNameOf(text.obj) # <<>>
           /\ Registered(ToolNameOf(text.obj)[1]))
          => LET after == handleIncomingMessage(HostState, sid, text) IN
               /\ Len(after.invocations) = Len(invocations) + 1
               /\ SubSeq(after.invocations, 1, Len(invocations)) = invocations
               /\ after.invocations[Len(after.invocations)].stage = "running"
               /\ after.events =
                    Append(events,
                           HostEvent("tool_invocation_started", sid,
                                     ToolNameOf(text.obj)[1],
                                     InvocationIdOf(ReplyId(text)),
                                     after.invocations[Len(after.invocations)].inv,
                                     0))
               /\ after.wire = wire)
  /\ [][\A i, j \in 1..Len(invocations) :
          (/\ \A k \in 1..Len(invocations') : invocations'[k] # invocations[i]
           /\ \A k \in 1..Len(invocations') : invocations'[k] # invocations[j])
          => i = j]_vars

\* C30 witness: two invocations of one session were in flight together and
\* the response to the later request was written before the response to the
\* earlier one.
C30_Witness ==
  \E i, j \in 1..Len(wire), a, b, c, d \in 1..Len(events) :
    /\ i < j
    /\ wire[i].kind = "result" /\ wire[i].inv = 2
    /\ wire[j].kind = "result" /\ wire[j].inv = 1
    /\ wire[i].to = wire[j].to
    /\ a < b /\ b < c /\ c < d
    /\ events[a].type = "tool_invocation_started" /\ events[a].inv = 1
    /\ events[b].type = "tool_invocation_started" /\ events[b].inv = 2
    /\ events[c].type = "tool_invocation_completed" /\ events[c].inv = 2
    /\ events[d].type = "tool_invocation_completed" /\ events[d].inv = 1
    /\ events[a].sessionId = events[b].sessionId

\* ---- Properties of the frame codec and of the connection's bytes ----
\* C22: for every payload p, encodeFrame(p, opcode) is p behind a header of
\* 2, 4 or 10 bytes (lengths below 126, below 65536, and from 65536 on), and
\* decodeFrame of it returns a frame with fin set, the opcode given (0x1 for
\* a text), a payload equal to p and totalLength equal to the encoded length.
C22_EncodeDecodeRoundTrip ==
  /\ encoded # <<>> =>
       /\ Len(encoded[1].bytes) =
            Len(plain) + (IF Len(plain) < 126 THEN 2
                          ELSE IF Len(plain) < 65536 THEN 4 ELSE 10)
       /\ encoded[1].bytes[2] =
            (IF Len(plain) < 126 THEN Len(plain)
             ELSE IF Len(plain) < 65536 THEN 126 ELSE 127)
  /\ decoded # <<>> =>
       decoded[1] = DecodedFrame("frame", TRUE, encoded[1].opcode, plain,
                                 Len(encoded[1].bytes))

\* C22 witness: a text payload of 126 bytes, the first that needs the 16-bit
\* length form, was encoded behind a 4-byte header and came back.
C22_Witness ==
  /\ decoded # <<>>
  /\ encoded[1].opcode = 1
  /\ Len(plain) = 126
  /\ encoded[1].bytes[2] = 126
  /\ readUInt16BE(encoded[1].bytes, 2) = 126
  /\ decoded[1].kind = "frame"
  /\ decoded[1].payload = plain

\* C21: once every byte a peer wrote has been delivered, in whatever chunks,
\* the connection has emitted the events and written the frames it emits and
\* writes when the same bytes arrive in a single chunk.
C21_ChunkBoundaryIndependent ==
  pending = <<>>
    => connection.emitted =
         handleDataBytes(FreshConnection, Flatten(stream)).emitted

\* C28: a text frame with fin=0, a frame with an unsupported opcode and a
\* frame whose 64-bit length has a non-zero upper half each end the
\* connection with a close frame that carries a close code, and none of them
\* makes the data handler throw.
C28_FramingViolationsClose ==
  /\ ~connection.thrown
  /\ \A f \in { PeerFrame(1, 7, 0, <<>>, <<97>>),
                PeerFrame(130, 7, 0, <<>>, <<97>>),
                PeerFrame(129, 64, 1, <<>>, <<>>) } :
       (~connection.closed /\ ~connection.thrown /\ connection.buffer = <<>>)
       => LET after == handleDataBytes(connection, f) IN
            /\ ~after.thrown
            /\ after.closed
            /\ Len(after.emitted) = Len(connection.emitted) + 1
            /\ after.emitted[Len(after.emitted)].kind = "write"
            /\ decodeFrame(after.emitted[Len(after.emitted)].bytes).opcode = 8
            /\ decodeCloseFrameBytes(
                 decodeFrame(after.emitted[Len(after.emitted)].bytes).payload)
                 \in 1000..4999

\* ---- Properties of the connector ----
\* C23: execute, called directly or through a wrapper, on a connector whose
\* connect() has not resolved rejects with the not-connected message and calls
\* nothing on the transport; once a connect() has resolved it calls
\* transport.executeKw with the model and method.  Only a connect() that
\* resolves sets the uid: one that rejects leaves it as it was, so a connector
\* that never connected stays unconnected and its transport has seen no
\* executeKw.
C23_ExecuteRequiresConnect ==
  /\ [][Execute =>
          IF uid = <<>>
            THEN /\ lastCall'.outcome = NotConnectedMessage
                 /\ transport' = transport
            ELSE /\ lastCall'.outcome # NotConnectedMessage
                 /\ Len(transport') = Len(transport) + 1
                 /\ SubSeq(transport', 1, Len(transport)) = transport
                 /\ transport'[Len(transport')].name = "executeKw"]_vars
  /\ [][uid' # uid =>
          /\ connecting > 0
          /\ lastCall'.op = "connect"
          /\ lastCall'.outcome = "ok"
          /\ uid' = lastCall'.result]_vars
  /\ [][(lastCall'.op = "connect" /\ lastCall'.outcome # "ok") =>
          uid' = uid]_vars
  /\ [](uid = <<>> =>
          \A i \in 1..Len(transport) : transport[i].name # "executeKw")

\* C23 witness: a connect() was rejected, and a wrapper called after it was
\* rejected with the not-connected message, the transport having seen the
\* connect call only.
C23_Witness ==
  /\ uid = <<>>
  /\ connecting = 0
  /\ transport = << TransportCall("connect", "", "") >>
  /\ lastCall.op = "create"
  /\ lastCall.outcome = NotConnectedMessage

\* C23, the other side: after a connect() that resolved with 42, a wrapper's
\* call reached the transport.
C23_WitnessForwarded ==
  /\ uid = <<42>>
  /\ Len(transport) = 2
  /\ transport[2] = TransportCall("executeKw", "res.partner", "create")
  /\ lastCall.op = "create"
  /\ lastCall.outcome = "ok"

\* ---- Invariants of the store ----
\* C34: every entry sig -> id of the signature index points to a lifecycle
\* that is in the lifecycle map, whose recorded signature is sig, which has a
\* plan stage and has no confirm stage.
C34_IndexPointsToLivePlan ==
  \A sig \in DOMAIN signatureIndex :
    LET id == signatureIndex[sig] IN
      /\ id \in DOMAIN lifecycles
      /\ lifecycles[id].signature = sig
      /\ lifecycles[id].plan # <<>>
      /\ lifecycles[id].confirm = <<>>

\* C34 witness: the index holds an entry for a signature under which an
\* earlier lifecycle was confirmed and a later one planned.
C34_Witness ==
  \E sig \in DOMAIN signatureIndex, id \in DOMAIN lifecycles :
    /\ lifecycles[id].signature = sig
    /\ lifecycles[id].confirm # <<>>
    /\ signatureIndex[sig] # id
    /\ signatureIndex[sig] \in DOMAIN lifecycles

\* C35: every lifecycle of the lifecycle map that has no confirm stage is the
\* one the signature index maps its signature to.
C35_NoOrphanedPlans ==
  \A id \in DOMAIN lifecycles :
    lifecycles[id].confirm = <<>>
      => /\ lifecycles[id].signature \in DOMAIN signatureIndex
         /\ signatureIndex[lifecycles[id].signature] = id

\* C38: for every confirm stage recorded on a lifecycle with a dry_run stage,
\* confirmedAt is not later than the expiresAt of that dry_run stage.
C38_NoConfirmAfterExpiry ==
  \A id \in DOMAIN lifecycles :
    (lifecycles[id].confirm # <<>> /\ lifecycles[id].dryRun # <<>>)
      => lifecycles[id].confirm[1].confirmedAt
           <= lifecycles[id].dryRun[1].expiresAt

\* C36: when the downstream call of a confirm invocation has returned, the
\* invocation records the confirm stage of its action and appends an
\* action_confirm_recorded event for it, whatever other invocations did while
\* the call was pending.
C36_SuccessfulMutationIsRecorded ==
  [][(lastCall'.op = "recordConfirm" /\ Len(tasks') < Len(tasks))
       => LET id == lastCall'.actionId[1] IN
            /\ lastCall'.outcome = "ok"
            /\ id \in DOMAIN lifecycles'
            /\ lifecycles'[id].confirm # <<>>
            /\ events' = Append(events,
                 [type |-> "action_confirm_recorded", actionId |-> id,
                  sessionId |-> lastCall'.sessionId, tool |-> lastCall'.tool,
                  payload |-> lastCall'.payload])]_vars

\* C37: a confirm invocation whose downstream call raised leaves the store as
\* it was (no confirm stage, no action_confirm_recorded event, lifecycles and
\* signature index unchanged) and issues no further downstream call; as long
\* as the action is still in the map, still unconfirmed and its approval has
\* not expired, validateConfirm accepts the same action id again.
C37_FailedMutationKeepsApproval ==
  /\ [][(lastCall'.op = "downstream" /\ Len(tasks') < Len(tasks))
          => /\ lifecycles' = lifecycles
             /\ signatureIndex' = signatureIndex
             /\ events' = events
             /\ nextId' = nextId
             /\ downstream' = downstream]_vars
  /\ [](lastCall.op = "downstream"
          => LET id == lastCall.actionId[1] IN
               (/\ id \in DOMAIN lifecycles
                /\ lifecycles[id].confirm = <<>>
                /\ lifecycles[id].dryRun # <<>>
                /\ \/ lifecycles[id].dryRun[1].expiresAt = 0
                   \/ lifecycles[id].dryRun[1].expiresAt >= now)
               => validateConfirm(id, lastCall.sessionId, lastCall.tool,
                                  lastCall.payload) = "ok")

\* C37 witness: the downstream call of the only confirm invocation raised;
\* the action has no confirm stage, the ledger no action_confirm_recorded
\* event, and validateConfirm accepts the action id again.
C37_Witness ==
  /\ lastCall.op = "downstream"
  /\ tasks = <<>>
  /\ Len(downstream) = 1
  /\ lastCall.actionId[1] \in DOMAIN lifecycles
  /\ lifecycles[lastCall.actionId[1]].confirm = <<>>
  /\ signatureIndex[lifecycles[lastCall.actionId[1]].signature]
       = lastCall.actionId[1]
  /\ \A i \in 1..Len(events) : events[i].type # "action_confirm_recorded"
  /\ validateConfirm(lastCall.actionId[1], lastCall.sessionId, lastCall.tool,
                     lastCall.payload) = "ok"

\* ---- Properties of a closed connection ----
\* C32: the frames written to a connection hold at most one close frame, no
\* text frame follows a close frame, and no step taken while the connection
\* is closed (its close frame written, the peer's received, or the socket
\* ended) writes a text frame or a close frame to it.
C32_ClosedConnectionWritesNothing ==
  /\ [](\A i, j \in 1..Len(wire) :
          (/\ wire[i].to = wire[j].to
           /\ wire[i].opcode = 8
           /\ i < j) => wire[j].opcode \notin {1, 8})
  /\ [][\A sid \in 1..Len(conn) :
          conn[sid].closed
            => \A k \in (Len(wire) + 1)..Len(wire') :
                 wire'[k].to = sid => wire'[k].opcode \notin {1, 8}]_vars
  /\ [][SubSeq(wire', 1, Len(wire)) = wire]_vars

\* C32 witness: an invocation ended on a connection that the server had
\* closed: the ledger has its terminal event, the wire has the one close
\* frame and nothing for the invocation.
C32_Witness ==
  \E sid \in 1..Len(conn), e \in 1..Len(events) :
    /\ conn[sid].closed
    /\ events[e].sessionId = sid
    /\ events[e].type \in {"tool_invocation_completed", "tool_invocation_failed"}
    /\ Cardinality({i \in 1..Len(wire) :
                      wire[i].to = sid /\ wire[i].opcode = 8}) = 1
    /\ \A i \in 1..Len(wire) : wire[i].inv # events[e].inv

\* C31: a step that closes a connection leaves the invocations in flight as
\* they are.  An invocation that ends while its connection is closed appends
\* its tool_invocation_completed or tool_invocation_failed event, and no step
\* taken while a connection is closed writes a response, an error or a
\* stream chunk to it.
C31_CloseDoesNotCancel ==
  /\ [][\A sid \in 1..Len(conn) :
          (~conn[sid].closed /\ conn'[sid].closed)
            => \A i \in 1..Len(invocations) :
                 /\ i <= Len(invocations')
                 /\ invocations'[i] = invocations[i]]_vars
  /\ [][\A i \in 1..Len(invocations) :
          (/\ conn[invocations[i].sid].closed
           /\ \A k \in 1..Len(invocations') :
                invocations'[k].inv # invocations[i].inv)
            => /\ Len(events') = Len(events) + 1
               /\ SubSeq(events', 1, Len(events)) = events
               /\ events'[Len(events')].type \in
                    {"tool_invocation_completed", "tool_invocation_failed"}
               /\ events'[Len(events')].inv = invocations[i].inv
               /\ events'[Len(events')].sessionId = invocations[i].sid
               /\ wire' = wire]_vars
  /\ [][\A sid \in 1..Len(conn) :
          conn[sid].closed
            => \A k \in (Len(wire) + 1)..Len(wire') :
                 wire'[k].to = sid
                   => wire'[k].kind \notin {"result", "error", "notification"}]_vars

\* C31 witness: an invocation was started, its session's connection was
\* closed, and the invocation ended after that: its terminal event follows
\* the session_closed event and the wire holds nothing for it.
C31_Witness ==
  \E a, b, c \in 1..Len(events) :
    /\ a < b /\ b < c
    /\ events[a].type = "tool_invocation_started"
    /\ events[b].type = "session_closed"
    /\ events[b].sessionId = events[a].sessionId
    /\ events[c].type \in {"tool_invocation_completed", "tool_invocation_failed"}
    /\ events[c].inv = events[a].inv
    /\ \A i \in 1..Len(wire) : wire[i].inv # events[a].inv

\* C39: no step taken on a connection that is closed (a close frame was
\* received, or the server called close()) appends a session_initialized or
\* tool_invocation_started event for its session, starts an invocation for
\* it, or answers a message on it.
C39_NoDispatchAfterClose ==
  /\ [][\A sid \in 1..Len(conn) :
          conn[sid].closed
            => /\ \A k \in (Len(events) + 1)..Len(events') :
                    events'[k].sessionId = sid
                      => events'[k].type \notin
                           {"session_initialized", "tool_invocation_started"}
               /\ \A k \in (Len(invocations) + 1)..Len(invocations') :
                    invocations'[k].sid # sid
               /\ conn'[sid].initialized = conn[sid].initialized]_vars
  /\ [](\A a, b \in 1..Len(events) :
          (/\ a < b
           /\ events[a].type = "session_closed"
           /\ events[a].sessionId = events[b].sessionId)
          => events[b].type \notin
               {"session_initialized", "tool_invocation_started"})

\* C40: the ledger holds at most one session_closed event per session.
C40_OneSessionClosedEvent ==
  \A sid \in 1..Len(conn) : Cardinality(ClosedEvents(sid)) <= 1

\* C33: a text frame that a peer wrote without the mask bit is not delivered
\* as a message: when none of the frames written carries the mask bit, the
\* connection has emitted no message.
C33_UnmaskedTextNotDelivered ==
  (\A i \in 1..Len(stream) : stream[i][2] \div 128 = 0)
    => \A j \in 1..Len(connection.emitted) :
         connection.emitted[j].kind # "message"

====
